---------------------------- MODULE Spec2Model ----------------------------
(***************************************************************************)
(* A model of perf-cpp's event-group and sampling engine:                  *)
(*   - Counter       (src/src/counter.cpp, src/include/perfcpp/counter.h)  *)
(*   - Group         (src/src/group.cpp,   src/include/perfcpp/group.h)    *)
(*   - EventCounter  (src/src/event_counter.cpp)                           *)
(*   - Sampler       (src/src/sampler.cpp)                                 *)
(* The Linux kernel is the environment: it owns the table of live file     *)
(* descriptors and the memory mappings, answers perf_event_open, and is    *)
(* the only writer of the ring buffers.                                    *)
(*                                                                         *)
(* Ten specifications share the variables:                                 *)
(*   SpecCounter  one Counter object: open (with precision fallback), close*)
(*   SpecGroup    one Group object: open, start, stop, get, close          *)
(*   SpecAdd      one EventCounter: add, result                            *)
(*   Spec         one EventCounter after its add calls: start, stop        *)
(*   SpecSampler  one Sampler: trigger, open, start, stop, close           *)
(*   SpecDecode   one opened Sampler: the kernel writes records, result()  *)
(*                walks the ring buffers                                   *)
(*   SpecRecords  one opened Sampler with one ring buffer: the kernel      *)
(*                writes records of every kind, result() walks them,       *)
(*                stop() disables the group                                *)
(*   SpecMulti    one MultiProcessEventCounter: start, stop, result        *)
(*   SpecWalk     one opened Sampler whose ring buffer holds records of    *)
(*                every type and cpu mode: result() walks them             *)
(*   SpecWrap     one opened Sampler with a small data area that the       *)
(*                kernel wraps around: result() walks it                   *)
(***************************************************************************)
EXTENDS Integers, Sequences, FiniteSets, TLC

VARIABLES
    kernel_fds,     \* kernel: the set of live file descriptors of the process
    calls,          \* the system calls issued by the last library call, in order
    outcome,        \* how the last library call ended: "none", "ok" or an error record
    counter,        \* SpecCounter: the Counter object (_config.precise_ip, _event_attribute.precise_ip, _id, _file_descriptor)
    config,         \* EventCounter::_config: max_groups, max_counters_per_group
    events,         \* EventCounter::_counters: the events in insertion order
    groups,         \* EventCounter::_groups
    event_counters, \* SpecMulti: MultiProcessEventCounter::_process_local_counter, per instance its event list and groups
    kernel_maps,    \* kernel: the addresses of the live perf mappings of the process
    values,         \* Sampler::_values: the sample mask and the counters recorded with a sample
    triggers,       \* Sampler::_triggers: the trigger groups in insertion order
    is_opened,      \* Sampler::_is_opened
    sample_counter, \* Sampler::_sample_counter: per trigger group its Group, buffer and counter names
    ring,           \* kernel: per mapping its perf_event_mmap_page (data_head, data_tail) and data area
    kernel_clock,   \* kernel: the clock that stamps the records
    samples,        \* the vector the last Sampler::result call returned, its argument and the kernel's clock at the call
    read_extent,    \* per buffer, the end of the furthest byte the last result call read in its data area
    group,          \* SpecGroup: the Group object (_members, _start_value, _end_value, _multiplexing_correction)
    kernel_counts,  \* kernel: the times and the per-member counts of the events of `group`
    got             \* what the last Group::get calls (one value per index asked) or the last EventCounter::result call returned

kernelVars == <<kernel_fds, calls, outcome>>
ecVars == <<config, events, groups, event_counters>>
samplerVars == <<kernel_maps, values, triggers, is_opened, sample_counter>>
decodeVars == <<ring, kernel_clock, samples, read_extent>>
groupVars == <<group, kernel_counts, got>>

(***************************************************************************)
(* Bounds of the model.                                                    *)
(***************************************************************************)
\* RLIMIT_NOFILE: the largest descriptor the kernel hands out (0..2 are stdio).
MaxFd == 5
\* The largest precise_ip a CounterConfig is given (Precision has the values 0..3).
MaxPreciseIp == 3
\* The largest Config::max_groups and Config::max_counters_per_group tried.
MaxGroupsTried == 2
MaxCountersPerGroupTried == 2
\* The longest event list built by add (a metric is appended on every add).
MaxEvents == 4

\* Body applied to the value of e: e is evaluated once, like a local variable
\* of the code.
With(e, Body(_)) == CHOOSE y \in {Body(x) : x \in {e}} : TRUE

(***************************************************************************)
(* The kernel.                                                             *)
(***************************************************************************)
\* What perf_event_open can answer to one attempt.
RetryErrnos == {"EINVAL", "EOPNOTSUPP"}
OtherErrnos == {"EACCES"}
Answers == {"OK"} \cup RetryErrnos \cup OtherErrnos

\* Descriptors 0, 1 and 2 are the standard streams.
FreeFds(fds) == {fd \in 3..MaxFd : fd \notin fds}

SetMin(S) == CHOOSE x \in S : \A y \in S : x <= y

\* One perf_event_open syscall: the lowest free descriptor, or -1 with errno.
\* A willing kernel still fails with EMFILE when the descriptor table is full.
KernelPerfEventOpen(fds, answer) ==
    IF answer # "OK" THEN [ret |-> -1, errno |-> answer, fds |-> fds]
    ELSE IF FreeFds(fds) = {} THEN [ret |-> -1, errno |-> "EMFILE", fds |-> fds]
    ELSE With(SetMin(FreeFds(fds)), LAMBDA fd :
             [ret |-> fd, errno |-> "none", fds |-> fds \cup {fd}])

\* PERF_EVENT_IOC_ID: the id of the event behind a descriptor, unique among the
\* live events.
KernelEventId(fd) == 100 + fd

(***************************************************************************)
(* Counter (src/src/counter.cpp).                                          *)
(***************************************************************************)
\* Counter::Counter: _id{0}, _file_descriptor{-1}; CounterConfig::_precise_ip
\* and CounterConfig::_is_frequency{false}. The attr_ fields are the fields
\* of the perf_event_attr block: precise_ip, disabled, sample_type set,
\* sample_id_all and freq.
NewCounter(precise_ip, is_auxiliary) ==
    [precise_ip |-> precise_ip, is_auxiliary |-> is_auxiliary, is_frequency |-> FALSE,
     attr_precise_ip |-> 0, attr_disabled |-> FALSE, attr_sampling |-> FALSE,
     attr_sample_id_all |-> FALSE, attr_freq |-> FALSE,
     id |-> 0, fd |-> -1]

\* Counter::perf_event_open passes -1 as group descriptor for a leader and the
\* leader's descriptor otherwise.
OpenCall(precise_ip, group_fd, r) ==
    [call |-> "perf_event_open", precise_ip |-> precise_ip, group_fd |-> group_fd,
     ret |-> r.ret, errno |-> r.errno]

\* SamplingAttempts with the errno test dropped: any failure is retried.
RECURSIVE SamplingAttemptsRetryAnyErrno(_, _, _, _)
SamplingAttemptsRetryAnyErrno(precise_ip, group_fd, fds, table) ==
    With(KernelPerfEventOpen(fds, table[precise_ip]), LAMBDA r :
        IF r.ret > -1 \/ precise_ip - 1 <= -1
        THEN [log |-> <<OpenCall(precise_ip, group_fd, r)>>, ret |-> r.ret,
              errno |-> r.errno, precise_ip |-> precise_ip, fds |-> r.fds]
        ELSE With(SamplingAttemptsRetryAnyErrno(precise_ip - 1, group_fd, fds, table),
                  LAMBDA rest :
                      [rest EXCEPT !.log = <<OpenCall(precise_ip, group_fd, r)>> \o rest.log]))

\* The loop of Counter::open in sampling mode, from precise_ip downwards:
\* the attempt with precise_ip, and the next one only if it failed with
\* EINVAL or EOPNOTSUPP and precise_ip - 1 > -1.
RECURSIVE SamplingAttempts(_, _, _, _)
SamplingAttempts(precise_ip, group_fd, fds, table) ==
    With(KernelPerfEventOpen(fds, table[precise_ip]), LAMBDA r :
        IF r.ret > -1 \/ r.errno \notin RetryErrnos \/ precise_ip - 1 <= -1
        THEN [log |-> <<OpenCall(precise_ip, group_fd, r)>>, ret |-> r.ret,
              errno |-> r.errno, precise_ip |-> precise_ip, fds |-> r.fds]
        ELSE With(SamplingAttempts(precise_ip - 1, group_fd, fds, table),
                  LAMBDA rest :
                      [rest EXCEPT !.log = <<OpenCall(precise_ip, group_fd, r)>> \o rest.log]))

\* Counting mode: one attempt, precise_ip left at 0 by the memset.
CountingAttempt(group_fd, fds, table) ==
    With(KernelPerfEventOpen(fds, table[0]), LAMBDA r :
        [log |-> <<OpenCall(0, group_fd, r)>>, ret |-> r.ret, errno |-> r.errno,
         precise_ip |-> 0, fds |-> r.fds])

\* The attempts of Counter::open, the group descriptor as perf_event_open gets it.
OpenAttemptsOf(c, is_group_leader, group_leader_fd, is_sampling, fds, table) ==
    IF is_sampling
    THEN SamplingAttempts(c.precise_ip, IF is_group_leader THEN -1 ELSE group_leader_fd, fds, table)
    ELSE CountingAttempt(IF is_group_leader THEN -1 ELSE group_leader_fd, fds, table)

\* CounterOpen storing the syscall's result only when it is a descriptor.
CounterOpenKeepsOldDescriptor(c, is_group_leader, is_secret_leader, group_leader_fd, is_sampling, fds, table) ==
    With(OpenAttemptsOf(c, is_group_leader, group_leader_fd, is_sampling, fds, table), LAMBDA a :
        [counter |-> [c EXCEPT !.fd = IF a.ret > -1 THEN a.ret ELSE c.fd,
                               !.attr_precise_ip = a.precise_ip,
                               !.attr_disabled = is_group_leader,
                               !.attr_sampling = is_sampling /\ (is_group_leader \/ is_secret_leader),
                               !.attr_sample_id_all =
                                   is_sampling /\ (is_group_leader \/ is_secret_leader),
                               !.attr_freq =
                                   is_sampling /\ (is_group_leader \/ is_secret_leader) /\ c.is_frequency,
                               !.id = IF a.ret > -1 THEN KernelEventId(a.ret) ELSE c.id],
         fds |-> a.fds,
         log |-> IF a.ret > -1 THEN a.log \o <<[call |-> "ioctl_id", fd |-> a.ret]>> ELSE a.log,
         error |-> IF a.ret > -1 THEN "none" ELSE "OpenFailure",
         errno |-> a.errno])

\* Counter::open. Returns the counter after the call, the kernel's
\* descriptors, the system calls made and whether the call threw.
CounterOpen(c, is_group_leader, is_secret_leader, group_leader_fd, is_sampling, fds, table) ==
    With(OpenAttemptsOf(c, is_group_leader, group_leader_fd, is_sampling, fds, table), LAMBDA a :
        [counter |-> [c EXCEPT !.fd = a.ret,
                               !.attr_precise_ip = a.precise_ip,
                               !.attr_disabled = is_group_leader,
                               !.attr_sampling = is_sampling /\ (is_group_leader \/ is_secret_leader),
                               !.attr_sample_id_all =
                                   is_sampling /\ (is_group_leader \/ is_secret_leader),
                               !.attr_freq =
                                   is_sampling /\ (is_group_leader \/ is_secret_leader) /\ c.is_frequency,
                               !.id = IF a.ret > -1 THEN KernelEventId(a.ret) ELSE c.id],
         fds |-> a.fds,
         log |-> IF a.ret > -1 THEN a.log \o <<[call |-> "ioctl_id", fd |-> a.ret]>> ELSE a.log,
         error |-> IF a.ret > -1 THEN "none" ELSE "OpenFailure",
         errno |-> a.errno])

\* CounterClose reading the descriptor without exchanging it with -1.
CounterCloseKeepsDescriptor(c, fds) ==
    [counter |-> c,
     fds |-> IF c.fd > -1 THEN fds \ {c.fd} ELSE fds,
     log |-> IF c.fd > -1 THEN <<[call |-> "close", fd |-> c.fd]>> ELSE <<>>]

\* Counter::close: exchange the descriptor with -1; close(2) only a descriptor > -1.
CounterClose(c, fds) ==
    [counter |-> [c EXCEPT !.fd = -1],
     fds |-> IF c.fd > -1 THEN fds \ {c.fd} ELSE fds,
     log |-> IF c.fd > -1 THEN <<[call |-> "close", fd |-> c.fd]>> ELSE <<>>]

(***************************************************************************)
(* Unsigned 64-bit differences and doubles.                                *)
(* The counts and times of the model are small naturals, so the only way   *)
(* a 64-bit value gets large is a subtraction that wraps. A difference is  *)
(* kept as [wrapped, low]: low when it did not wrap, 2^64 - low when it    *)
(* did. A double is kept as [kind, num, den, exp]: num/den x 2^(64 exp)    *)
(* when finite (no double of the code is negative), else inf or nan.       *)
(***************************************************************************)
\* a - b on std::uint64_t.
U64Sub(a, b) == [wrapped |-> a < b, low |-> IF a < b THEN b - a ELSE a - b]

RECURSIVE GCD(_, _)
GCD(a, b) == IF b = 0 THEN a ELSE GCD(b, a % b)

DZero == [kind |-> "finite", num |-> 0, den |-> 1, exp |-> 0]
DInf == [kind |-> "inf", num |-> 0, den |-> 1, exp |-> 0]
DNaN == [kind |-> "nan", num |-> 0, den |-> 1, exp |-> 0]

\* The finite double num/den x 2^(64 exp), in lowest terms.
DFinite(num, den, exp) ==
    IF num = 0 THEN DZero
    ELSE [kind |-> "finite", num |-> num \div GCD(num, den), den |-> den \div GCD(num, den),
          exp |-> exp]

\* double(x) of a std::uint64_t: a wrapped difference 2^64 - low with low
\* below 1025 rounds to 2^64 (doubles next to 2^64 are 2048 apart below it).
ToDouble(u) == IF u.wrapped THEN DFinite(1, 1, 1) ELSE DFinite(u.low, 1, 0)

\* a / b on doubles (IEEE 754: x/0 is inf, 0/0 is nan).
DDiv(a, b) ==
    IF a.kind = "nan" \/ b.kind = "nan" THEN DNaN
    ELSE IF a.kind = "inf" THEN IF b.kind = "inf" THEN DNaN ELSE DInf
    ELSE IF b.kind = "inf" THEN DZero
    ELSE IF b.num = 0 THEN IF a.num = 0 THEN DNaN ELSE DInf
    ELSE DFinite(a.num * b.den, a.den * b.num, a.exp - b.exp)

\* a * b on doubles (0 x inf is nan).
DMul(a, b) ==
    IF a.kind = "nan" \/ b.kind = "nan" THEN DNaN
    ELSE IF a.kind = "inf" THEN IF b.kind = "finite" /\ b.num = 0 THEN DNaN ELSE DInf
    ELSE IF b.kind = "inf" THEN IF a.num = 0 THEN DNaN ELSE DInf
    ELSE DFinite(a.num * b.num, a.den * b.den, a.exp + b.exp)

\* std::max(.0, x): x when .0 < x, else .0.
DMax0(x) == IF x.kind = "inf" \/ (x.kind = "finite" /\ x.num > 0) THEN x ELSE DZero

(***************************************************************************)
(* Group (src/src/group.cpp).                                              *)
(***************************************************************************)
\* Group::MAX_MEMBERS: the number of {value, id} slots of a snapshot.
MAX_MEMBERS == 8

\* CounterReadFormat<MAX_MEMBERS>{}: a zeroed snapshot. values holds the
\* first count_members slots.
ZeroSnapshot ==
    [count_members |-> 0, time_enabled |-> 0, time_running |-> 0, values |-> <<>>]

NewGroup ==
    [members |-> <<>>, start_value |-> ZeroSnapshot, end_value |-> ZeroSnapshot,
     multiplexing_correction |-> DZero]

\* Group::add: no capacity check.
GroupAdd(g, precise_ip, is_auxiliary) ==
    [g EXCEPT !.members = Append(@, NewCounter(precise_ip, is_auxiliary))]

\* Group::leader_file_descriptor.
GroupLeaderFd(g) == IF g.members # <<>> THEN g.members[1].fd ELSE -1

\* The loop of Group::open from member j on; answers[j] is the kernel's answer
\* to member j's single attempt. The first failing member ends the loop with
\* the exception of Counter::open; the members opened before it stay opened.
\* st = [group, leader_fd, fds, log, error, errno].
RECURSIVE GroupOpenFrom(_, _, _)
GroupOpenFrom(st, j, answers) ==
    IF j > Len(st.group.members) THEN st
    ELSE With(CounterOpen(st.group.members[j], j = 1, FALSE, st.leader_fd, FALSE, st.fds,
                          [p \in {0} |-> answers[j]]),
              LAMBDA r :
                  With([group |-> [st.group EXCEPT !.members[j] = r.counter],
                        leader_fd |-> IF j = 1 THEN r.counter.fd ELSE st.leader_fd,
                        fds |-> r.fds, log |-> st.log \o r.log,
                        error |-> r.error, errno |-> r.errno],
                       LAMBDA st2 :
                           IF st2.error # "none" THEN st2
                           ELSE GroupOpenFrom(st2, j + 1, answers)))

\* Group::open.
GroupOpen(g, fds, answers) ==
    GroupOpenFrom([group |-> g, leader_fd |-> -1, fds |-> fds, log |-> <<>>,
                   error |-> "none", errno |-> "none"], 1, answers)

\* Group::close: every member, in order. st = [group, fds, log].
RECURSIVE GroupCloseFrom(_, _)
GroupCloseFrom(st, j) ==
    IF j > Len(st.group.members) THEN st
    ELSE With(CounterClose(st.group.members[j], st.fds), LAMBDA r :
             With([group |-> [st.group EXCEPT !.members[j] = r.counter],
                   fds |-> r.fds, log |-> st.log \o r.log],
                  LAMBDA st2 : GroupCloseFrom(st2, j + 1)))

GroupClose(g, fds) == GroupCloseFrom([group |-> g, fds |-> fds, log |-> <<>>], 1)

\* Group::enable / Group::disable: ioctls on the leader's descriptor.
GroupEnable(g) ==
    <<[call |-> "ioctl_reset", fd |-> GroupLeaderFd(g)],
      [call |-> "ioctl_enable", fd |-> GroupLeaderFd(g)]>>

GroupDisable(g) == <<[call |-> "ioctl_disable", fd |-> GroupLeaderFd(g)]>>

\* read(2) on the leader: -1 on a descriptor that is not live, on an error
\* and when the group's read size exceeds the buffer (ENOSPC), 0 at end of
\* file, else the bytes of {count, time_enabled, time_running,
\* count x {value, id}}. An answer is [status, time_enabled, time_running,
\* values]: the kernel's state of the group's events at the read.
ReadAnswers == {"data", "eof", "error"}

\* The kernel's state of a group's events: whether the leader is enabled, the
\* two times of the leader and the count of every member; clock is the
\* kernel's clock, which goes on when events are dropped and created.
ZeroCounts ==
    [enabled |-> FALSE, time_enabled |-> 0, time_running |-> 0,
     values |-> [j \in 1..MAX_MEMBERS |-> 0], clock |-> 0]

\* The state of events just created.
NewCounts(counts) == [ZeroCounts EXCEPT !.clock = counts.clock]

ReadAnswer(status, counts) ==
    [status |-> status, time_enabled |-> counts.time_enabled,
     time_running |-> counts.time_running, values |-> counts.values]

KernelRead(fd, fds, n_members, answer) ==
    IF fd \notin fds \/ answer.status = "error" \/ n_members > MAX_MEMBERS THEN -1
    ELSE IF answer.status = "eof" THEN 0
    ELSE 24 + 16 * n_members

\* What a successful read stores in the snapshot.
KernelSnapshot(g, answer) ==
    [count_members |-> Len(g.members),
     time_enabled |-> answer.time_enabled,
     time_running |-> answer.time_running,
     values |-> [j \in 1..Len(g.members) |->
                    [value |-> answer.values[j], id |-> KernelEventId(g.members[j].fd)]]]

\* Group::read: `read_size > 0ULL` compares the ssize_t result after its
\* conversion to unsigned long long, which takes a negative result to
\* 2^64 + read_size > 0. value is the snapshot after the call.
GroupRead(g, value, fds, answer) ==
    With(KernelRead(GroupLeaderFd(g), fds, Len(g.members), answer), LAMBDA ret :
        [ret |-> ret,
         ok |-> IF ret < 0 THEN TRUE ELSE ret > 0,
         value |-> IF ret > 0 THEN KernelSnapshot(g, answer) ELSE value,
         log |-> <<[call |-> "read", fd |-> GroupLeaderFd(g), ret |-> ret]>>])

\* Group::start.
GroupStart(g, fds, answer) ==
    IF g.members = <<>>
    THEN [group |-> g, log |-> <<>>, ret |-> FALSE, error |-> "EmptyGroup"]
    ELSE With(GroupRead(g, g.start_value, fds, answer), LAMBDA r :
             [group |-> [g EXCEPT !.start_value = r.value],
              log |-> GroupEnable(g) \o r.log, ret |-> r.ok, error |-> "none"])

\* The quotient Group::stop stores.
MultiplexingCorrection(start, end) ==
    DDiv(ToDouble(U64Sub(end.time_enabled, start.time_enabled)),
         ToDouble(U64Sub(end.time_running, start.time_running)))

\* GroupStop issuing the DISABLE before the read.
GroupStopDisablesFirst(g, fds, answer) ==
    IF g.members = <<>>
    THEN [group |-> g, log |-> <<>>, ret |-> FALSE, error |-> "none"]
    ELSE With(GroupRead(g, g.end_value, fds, answer), LAMBDA r :
             [group |-> [g EXCEPT !.end_value = r.value,
                                  !.multiplexing_correction =
                                      MultiplexingCorrection(g.start_value, r.value)],
              log |-> GroupDisable(g) \o r.log, ret |-> r.ok, error |-> "none"])

\* Group::stop: an empty group returns false, nothing is thrown.
GroupStop(g, fds, answer) ==
    IF g.members = <<>>
    THEN [group |-> g, log |-> <<>>, ret |-> FALSE, error |-> "none"]
    ELSE With(GroupRead(g, g.end_value, fds, answer), LAMBDA r :
             [group |-> [g EXCEPT !.end_value = r.value,
                                  !.multiplexing_correction =
                                      MultiplexingCorrection(g.start_value, r.value)],
              log |-> r.log \o GroupDisable(g), ret |-> r.ok, error |-> "none"])

\* Group::value_for_id: the value of the first of the count_members slots
\* with the id, <<>> for std::nullopt.
ValueForId(counter_values, id) ==
    With({i \in 1..counter_values.count_members : counter_values.values[i].id = id},
         LAMBDA found :
             IF found = {} THEN <<>> ELSE <<counter_values.values[SetMin(found)].value>>)

\* Group::get(index), index counted from 0.
GroupGet(g, index) ==
    IF index < Len(g.members)
    THEN With(ValueForId(g.start_value, g.members[index + 1].id), LAMBDA counter_start_value :
         With(ValueForId(g.end_value, g.members[index + 1].id), LAMBDA counter_end_value :
             IF counter_start_value # <<>> /\ counter_end_value # <<>>
             THEN DMul(DMax0(ToDouble(U64Sub(counter_end_value[1], counter_start_value[1]))),
                       g.multiplexing_correction)
             ELSE DZero))
    ELSE DZero

(***************************************************************************)
(* The catalogue of names (CounterDefinitions, a collaborator).            *)
(***************************************************************************)
CounterNames == {"cycles", "instructions", "cache-misses"}

\* Each metric with its required counter names, in order.
MetricRequires ==
    [m \in {"ipc", "broken-metric"} |->
        IF m = "ipc" THEN <<"instructions", "cycles">> ELSE <<"cycles", "no-such-counter">>]

MetricNames == DOMAIN MetricRequires

\* The names a caller passes to add: counters, metrics, the group break and a
\* name the catalogue does not know.
AddNames == CounterNames \cup MetricNames \cup {"", "no-such-name"}

(***************************************************************************)
(* EventCounter (src/src/event_counter.cpp).                               *)
(***************************************************************************)
CounterEvent(name, is_hidden, group_id, in_group_id) ==
    [name |-> name, is_counter |-> TRUE, is_hidden |-> is_hidden,
     group_id |-> group_id, in_group_id |-> in_group_id]

MetricEvent(name) ==
    [name |-> name, is_counter |-> FALSE, is_hidden |-> FALSE,
     group_id |-> 0, in_group_id |-> 0]

\* The groups with a new last group when there is none or the last one is full.
ECGroupsWithRoom(gs, cfg) ==
    IF gs = <<>> \/ Len(gs[Len(gs)].members) >= cfg.max_counters_per_group
    THEN Append(gs, NewGroup)
    ELSE gs

\* ECAddCounter storing the new hidden flag in an event that exists.
ECAddCounterOverwritesHidden(st, cfg, name, is_hidden) ==
    With({i \in 1..Len(st.events) : st.events[i].name = name}, LAMBDA found :
        IF found # {}
        THEN [events |-> [st.events EXCEPT ![SetMin(found)].is_hidden = is_hidden],
              groups |-> st.groups, error |-> "none"]
        ELSE IF /\ Len(st.groups) = cfg.max_groups
                /\ Len(st.groups[Len(st.groups)].members) >= cfg.max_counters_per_group
        THEN [events |-> st.events, groups |-> st.groups, error |-> "TooManyCounters"]
        ELSE With(ECGroupsWithRoom(st.groups, cfg), LAMBDA gs :
                 [events |-> Append(st.events,
                                    CounterEvent(name, is_hidden, Len(gs) - 1,
                                                 Len(gs[Len(gs)].members))),
                  groups |-> [gs EXCEPT ![Len(gs)] = GroupAdd(@, 0, FALSE)],
                  error |-> "none"]))

\* EventCounter::add(name, config, is_hidden) on st = [events, groups].
ECAddCounter(st, cfg, name, is_hidden) ==
    With({i \in 1..Len(st.events) : st.events[i].name = name}, LAMBDA found :
        IF found # {}
        THEN [events |-> [st.events EXCEPT ![SetMin(found)].is_hidden = @ /\ is_hidden],
              groups |-> st.groups, error |-> "none"]
        ELSE IF /\ Len(st.groups) = cfg.max_groups
                /\ Len(st.groups[Len(st.groups)].members) >= cfg.max_counters_per_group
        THEN [events |-> st.events, groups |-> st.groups, error |-> "TooManyCounters"]
        ELSE With(ECGroupsWithRoom(st.groups, cfg), LAMBDA gs :
                 [events |-> Append(st.events,
                                    CounterEvent(name, is_hidden, Len(gs) - 1,
                                                 Len(gs[Len(gs)].members))),
                  groups |-> [gs EXCEPT ![Len(gs)] = GroupAdd(@, 0, FALSE)],
                  error |-> "none"]))

\* The loop of EventCounter::add over a metric's required counters, from the
\* k-th on: what earlier iterations added stays when a later one throws.
RECURSIVE ECAddRequired(_, _, _, _)
ECAddRequired(st, cfg, required, k) ==
    IF k > Len(required)
    THEN [events |-> st.events, groups |-> st.groups, error |-> "none"]
    ELSE IF required[k] \notin CounterNames
    THEN [events |-> st.events, groups |-> st.groups, error |-> "UnknownCounterForMetric"]
    ELSE With(ECAddCounter(st, cfg, required[k], TRUE), LAMBDA r :
             IF r.error # "none" THEN r
             ELSE ECAddRequired(r, cfg, required, k + 1))

\* ECAdd appending a group for an empty name whenever there is room, an empty
\* last group or not.
ECAddBreakAlwaysAppends(st, cfg, name) ==
    IF name = ""
    THEN IF Len(st.groups) < cfg.max_groups
         THEN [events |-> st.events, groups |-> Append(st.groups, NewGroup), error |-> "none"]
         ELSE [events |-> st.events, groups |-> st.groups, error |-> "TooManyGroups"]
    ELSE IF name \in CounterNames
    THEN ECAddCounter(st, cfg, name, FALSE)
    ELSE IF name \in MetricNames
    THEN With(ECAddRequired(st, cfg, MetricRequires[name], 1), LAMBDA r :
             IF r.error # "none" THEN r
             ELSE [events |-> Append(r.events, MetricEvent(name)), groups |-> r.groups,
                   error |-> "none"])
    ELSE [events |-> st.events, groups |-> st.groups, error |-> "UnknownName"]

\* EventCounter::add(std::string&&).
ECAdd(st, cfg, name) ==
    IF name = ""
    THEN IF st.groups = <<>> \/ st.groups[Len(st.groups)].members = <<>>
         THEN [events |-> st.events, groups |-> st.groups, error |-> "none"]
         ELSE IF Len(st.groups) < cfg.max_groups
         THEN [events |-> st.events, groups |-> Append(st.groups, NewGroup), error |-> "none"]
         ELSE [events |-> st.events, groups |-> st.groups, error |-> "TooManyGroups"]
    ELSE IF name \in CounterNames
    THEN ECAddCounter(st, cfg, name, FALSE)
    ELSE IF name \in MetricNames
    THEN With(ECAddRequired(st, cfg, MetricRequires[name], 1), LAMBDA r :
             IF r.error # "none" THEN r
             ELSE [events |-> Append(r.events, MetricEvent(name)), groups |-> r.groups,
                   error |-> "none"])
    ELSE [events |-> st.events, groups |-> st.groups, error |-> "UnknownName"]

\* CounterResult::get: the value of the first entry with the name, <<>> for
\* std::nullopt.
CounterResultGet(results, name) ==
    With({i \in 1..Len(results) : results[i].name = name}, LAMBDA found :
        IF found = {} THEN <<>> ELSE <<results[SetMin(found)].value>>)

\* Metric::calculate of the catalogue's metrics: the quotient of the first
\* required counter by the second when the result holds both.
MetricCalculate(name, results) ==
    With(CounterResultGet(results, MetricRequires[name][1]), LAMBDA first :
    With(CounterResultGet(results, MetricRequires[name][2]), LAMBDA second :
        IF first # <<>> /\ second # <<>> THEN <<DDiv(first[1], second[1])>> ELSE <<>>))

\* First loop of EventCounter::result: the value of every counter event,
\* hidden or not, from the k-th event on.
RECURSIVE HardwareEventValues(_, _, _, _)
HardwareEventValues(es, gs, normalization, k) ==
    IF k > Len(es) THEN <<>>
    ELSE (IF es[k].is_counter
          THEN <<[name |-> es[k].name,
                  value |-> DDiv(GroupGet(gs[es[k].group_id + 1], es[k].in_group_id),
                                 ToDouble(U64Sub(normalization, 0)))]>>
          ELSE <<>>)
         \o HardwareEventValues(es, gs, normalization, k + 1)

\* Second loop of EventCounter::result, from the k-th event on: a counter
\* that is not hidden gives its value; every other event is looked up as a
\* metric and gives the metric's value when there is one.
RECURSIVE RequestedValues(_, _, _)
RequestedValues(es, hardware_events_result, k) ==
    IF k > Len(es) THEN <<>>
    ELSE With(IF es[k].is_counter /\ ~es[k].is_hidden
              THEN CounterResultGet(hardware_events_result, es[k].name)
              ELSE IF es[k].name \in MetricNames
              THEN MetricCalculate(es[k].name, hardware_events_result)
              ELSE <<>>,
              LAMBDA value :
                  (IF value # <<>> THEN <<[name |-> es[k].name, value |-> value[1]]>> ELSE <<>>)
                  \o RequestedValues(es, hardware_events_result, k + 1))

\* ECResult copying the value of every counter event, hidden or not.
ECResultShowsHidden(es, gs, normalization) ==
    With(HardwareEventValues(es, gs, normalization, 1), LAMBDA hardware_event_values :
        RequestedValues([k \in 1..Len(es) |-> [es[k] EXCEPT !.is_hidden = FALSE]],
                        hardware_event_values, 1))

\* EventCounter::result(normalization).
ECResult(es, gs, normalization) ==
    With(HardwareEventValues(es, gs, normalization, 1), LAMBDA hardware_event_values :
        RequestedValues(es, hardware_event_values, 1))

\* First loop of EventCounter::start: group.open for every group, in order;
\* the first exception leaves the loop and the function.
\* st = [groups, fds, log, error, errno].
RECURSIVE ECOpenGroups(_, _, _)
ECOpenGroups(st, g, answers) ==
    IF g > Len(st.groups) THEN st
    ELSE With(GroupOpen(st.groups[g], st.fds, answers[g]), LAMBDA r :
             With([groups |-> [st.groups EXCEPT ![g] = r.group], fds |-> r.fds,
                   log |-> st.log \o r.log, error |-> r.error, errno |-> r.errno],
                  LAMBDA st2 :
                      IF st2.error # "none" THEN st2
                      ELSE ECOpenGroups(st2, g + 1, answers)))

\* Second loop of EventCounter::start: group.start for every group; its
\* boolean result is dropped, its exception (empty group) ends the function.
RECURSIVE ECStartGroups(_, _, _)
ECStartGroups(st, g, reads) ==
    IF g > Len(st.groups) THEN st
    ELSE With(GroupStart(st.groups[g], st.fds, reads[g]), LAMBDA r :
             With([groups |-> [st.groups EXCEPT ![g] = r.group], fds |-> st.fds,
                   log |-> st.log \o r.log, error |-> r.error, errno |-> "none"],
                  LAMBDA st2 :
                      IF st2.error # "none" THEN st2
                      ELSE ECStartGroups(st2, g + 1, reads)))

\* EventCounter::start.
ECStart(gs, fds, answers, reads) ==
    With(ECOpenGroups([groups |-> gs, fds |-> fds, log |-> <<>>,
                       error |-> "none", errno |-> "none"], 1, answers),
         LAMBDA o :
             IF o.error # "none" THEN o
             ELSE ECStartGroups(o, 1, reads))

\* First loop of EventCounter::stop: group.stop for every group (result dropped).
\* st = [groups, fds, log].
RECURSIVE ECStopGroups(_, _, _)
ECStopGroups(st, g, reads) ==
    IF g > Len(st.groups) THEN st
    ELSE With(GroupStop(st.groups[g], st.fds, reads[g]), LAMBDA r :
             With([groups |-> [st.groups EXCEPT ![g] = r.group], fds |-> st.fds,
                   log |-> st.log \o r.log],
                  LAMBDA st2 : ECStopGroups(st2, g + 1, reads)))

\* Second loop of EventCounter::stop: group.close for every group.
RECURSIVE ECCloseGroups(_, _)
ECCloseGroups(st, g) ==
    IF g > Len(st.groups) THEN st
    ELSE With(GroupClose(st.groups[g], st.fds), LAMBDA r :
             With([groups |-> [st.groups EXCEPT ![g] = r.group], fds |-> r.fds,
                   log |-> st.log \o r.log],
                  LAMBDA st2 : ECCloseGroups(st2, g + 1)))

\* ECStop leaving the function, the groups still opened, when a read of the
\* first loop failed.
ECStopLeavesAtFailedRead(gs, fds, reads) ==
    With(ECStopGroups([groups |-> gs, fds |-> fds, log |-> <<>>], 1, reads),
         LAMBDA t :
             IF \E k \in 1..Len(t.log) : t.log[k].call = "read" /\ t.log[k].ret <= 0
             THEN t
             ELSE ECCloseGroups(t, 1))

\* EventCounter::stop.
ECStop(gs, fds, reads) ==
    With(ECStopGroups([groups |-> gs, fds |-> fds, log |-> <<>>], 1, reads),
         LAMBDA t : ECCloseGroups(t, 1))

(***************************************************************************)
(* Sampler (src/src/sampler.cpp): trigger, open, start, stop, close.       *)
(***************************************************************************)
\* Config::_precise_ip of a default-constructed SampleConfig:
\* Precision::MustHaveConstantSkid.
DefaultPreciseIp == 1

\* The auxiliary event some machines need as first member of a memory
\* sampling group (CounterConfig::is_auxiliary).
AuxiliaryCounterNames == {"mem-loads-aux"}
SamplerCounterNames == CounterNames \cup AuxiliaryCounterNames

\* Sampler::Values as constructed: nothing is recorded.
NewValues ==
    [sample_type |-> {}, counters |-> <<>>, user_registers |-> 0, kernel_registers |-> 0,
     is_include_throttle |-> FALSE]

\* mmap(2) of a perf descriptor: the mapping's address, or MAP_FAILED.
MmapAnswers == {"ok", "MAP_FAILED", "null"}
MapAddress(fd) == 4096 * fd
KernelMmap(maps, fds, fd, answer) ==
    IF answer = "ok" /\ fd \in fds
    THEN [ret |-> MapAddress(fd), maps |-> maps \cup {MapAddress(fd)}]
    ELSE IF answer = "null" /\ fd \in fds
    THEN [ret |-> 0, maps |-> maps]
    ELSE [ret |-> -1, maps |-> maps]

\* SampleCounter::SampleCounter: the group, no buffer yet, the counter names.
NewSampleCounter(g, names) == [group |-> g, buffer |-> 0, counter_names |-> names]

\* TriggerGroupError without the test for metrics: a name is accepted when
\* the catalogue knows it, as a counter or as a metric.
RECURSIVE TriggerGroupErrorAcceptsMetrics(_, _)
TriggerGroupErrorAcceptsMetrics(trigger_group, k) ==
    IF k > Len(trigger_group) THEN "none"
    ELSE IF trigger_group[k] \notin SamplerCounterNames \cup MetricNames THEN "UnknownCounter"
    ELSE TriggerGroupErrorAcceptsMetrics(trigger_group, k + 1)

\* The loop of Sampler::trigger over the names of one trigger group: a metric
\* or an unknown name throws.
RECURSIVE TriggerGroupError(_, _)
TriggerGroupError(trigger_group, k) ==
    IF k > Len(trigger_group) THEN "none"
    ELSE IF trigger_group[k] \in MetricNames THEN "MetricAsTrigger"
    ELSE IF trigger_group[k] \notin SamplerCounterNames THEN "UnknownCounter"
    ELSE TriggerGroupError(trigger_group, k + 1)

\* Sampler::trigger(std::vector<std::vector<Trigger>>&&): the groups before a
\* throwing one are already pushed to _triggers. st = [triggers, error].
RECURSIVE SamplerTrigger(_, _, _)
SamplerTrigger(st, input, i) ==
    IF i > Len(input) THEN st
    ELSE With(TriggerGroupError(input[i], 1), LAMBDA e :
             IF e # "none" THEN [triggers |-> st.triggers, error |-> e]
             ELSE SamplerTrigger([triggers |-> Append(st.triggers, input[i]), error |-> "none"],
                                 input, i + 1))

\* Config::_period_or_frequency as constructed is a Period.
DefaultIsFrequency == FALSE

\* The first loop of transform_trigger_to_sample_counter: one member per
\* trigger, its precise_ip and its cadence the configured ones.
RECURSIVE GroupOfTriggers(_, _, _)
GroupOfTriggers(g, trigger_group, k) ==
    IF k > Len(trigger_group) THEN g
    ELSE GroupOfTriggers([GroupAdd(g, DefaultPreciseIp,
                                   trigger_group[k] \in AuxiliaryCounterNames)
                             EXCEPT !.members[k].is_frequency = DefaultIsFrequency],
                         trigger_group, k + 1)

\* The second loop: one member per counter recorded with the sample; a
\* CounterConfig from the catalogue has precise_ip 0.
RECURSIVE GroupWithCounters(_, _, _)
GroupWithCounters(g, names, k) ==
    IF k > Len(names) THEN g
    ELSE GroupWithCounters(GroupAdd(g, 0, names[k] \in AuxiliaryCounterNames), names, k + 1)

\* TransformTriggerToSampleCounter recording the names of the read-value
\* counters only.
TransformTriggerNamesOnlyReadValues(trigger_group, vals) ==
    IF "READ" \in vals.sample_type
    THEN NewSampleCounter(GroupWithCounters(GroupOfTriggers(NewGroup, trigger_group, 1),
                                            vals.counters, 1),
                          vals.counters)
    ELSE NewSampleCounter(GroupOfTriggers(NewGroup, trigger_group, 1), <<>>)

\* Sampler::transform_trigger_to_sample_counter.
TransformTriggerToSampleCounter(trigger_group, vals) ==
    IF "READ" \in vals.sample_type
    THEN NewSampleCounter(GroupWithCounters(GroupOfTriggers(NewGroup, trigger_group, 1),
                                            vals.counters, 1),
                          trigger_group \o vals.counters)
    ELSE NewSampleCounter(GroupOfTriggers(NewGroup, trigger_group, 1), <<>>)

\* The member loop of Sampler::open for sample counter i, from member j on.
\* st = [sample_counter, leader_fd, fds, maps, log, error, errno].
RECURSIVE SamplerOpenMembers(_, _, _, _)
SamplerOpenMembers(st, i, j, answers) ==
    IF j > Len(st.sample_counter[i].group.members) THEN st
    ELSE With(CounterOpen(st.sample_counter[i].group.members[j], j = 1,
                          st.sample_counter[i].group.members[1].is_auxiliary /\ j = 2,
                          st.leader_fd, TRUE, st.fds, answers[i][j]),
              LAMBDA r :
                  With([st EXCEPT !.sample_counter[i].group.members[j] = r.counter,
                                  !.leader_fd = IF j = 1 THEN r.counter.fd ELSE @,
                                  !.fds = r.fds, !.log = @ \o r.log,
                                  !.error = r.error, !.errno = r.errno],
                       LAMBDA st2 :
                           IF st2.error # "none" THEN st2
                           ELSE SamplerOpenMembers(st2, i, j + 1, answers)))

\* BufferFileDescriptor taking the leader's descriptor in every case.
BufferFileDescriptorOfLeader(g, leader_fd) == leader_fd

\* The descriptor Sampler::open maps for a sample counter: the leader's, or
\* the second member's behind an auxiliary leader.
BufferFileDescriptor(g, leader_fd) ==
    IF g.members[1].is_auxiliary /\ Len(g.members) > 1 THEN g.members[2].fd ELSE leader_fd

\* The mmap of Sampler::open for sample counter i and the two tests of its result.
SamplerOpenBuffer(st, i, mmaps) ==
    With(BufferFileDescriptor(st.sample_counter[i].group, st.leader_fd), LAMBDA fd :
        With(KernelMmap(st.maps, st.fds, fd, mmaps[i]), LAMBDA m :
            With([st EXCEPT !.maps = m.maps,
                            !.log = @ \o <<[call |-> "mmap", fd |-> fd, ret |-> m.ret]>>],
                 LAMBDA st2 :
                     IF m.ret = -1 \/ m.ret = 0
                     THEN [st2 EXCEPT !.error = "BufferAllocationFailure"]
                     ELSE [st2 EXCEPT !.sample_counter[i].buffer = m.ret])))

\* The outer loop of Sampler::open from sample counter i on: an exception
\* leaves the function with everything as it is at that point.
RECURSIVE SamplerOpenFrom(_, _, _, _)
SamplerOpenFrom(st, i, answers, mmaps) ==
    IF i > Len(st.sample_counter) THEN st
    ELSE With(SamplerOpenMembers([st EXCEPT !.leader_fd = -1], i, 1, answers), LAMBDA o :
             IF o.error # "none" THEN o
             ELSE With(SamplerOpenBuffer(o, i, mmaps), LAMBDA b :
                      IF b.error # "none" THEN b
                      ELSE SamplerOpenFrom(b, i + 1, answers, mmaps)))

\* SamplerOpen without the test of the flag: the sample counters are built
\* and opened at every call.
SamplerOpenIgnoresFlag(s, trigs, vals, answers, mmaps) ==
    With(s.sample_counter \o
             [i \in 1..Len(trigs) |-> TransformTriggerToSampleCounter(trigs[i], vals)],
         LAMBDA sc :
             With([is_opened |-> TRUE, sample_counter |-> sc, leader_fd |-> -1,
                   fds |-> s.fds, maps |-> s.maps, log |-> <<>>,
                   error |-> "none", errno |-> "none"],
                  LAMBDA st :
                      IF sc = <<>> THEN [st EXCEPT !.error = "NoTriggers"]
                      ELSE SamplerOpenFrom(st, 1,
                               [i \in 1..Len(sc) |-> [j \in 1..Len(sc[i].group.members) |->
                                   [p \in 0..DefaultPreciseIp |-> "OK"]]],
                               [i \in 1..Len(sc) |-> "ok"])))

\* Sampler::open on s = [is_opened, sample_counter, fds, maps]; answers[i][j]
\* is the kernel's table of answers for member j of trigger group i and
\* mmaps[i] its answer to the mmap of group i.
SamplerOpen(s, trigs, vals, answers, mmaps) ==
    IF s.is_opened
    THEN [is_opened |-> TRUE, sample_counter |-> s.sample_counter, leader_fd |-> -1,
          fds |-> s.fds, maps |-> s.maps, log |-> <<>>, error |-> "none", errno |-> "none"]
    ELSE With(s.sample_counter \o
                  [i \in 1..Len(trigs) |-> TransformTriggerToSampleCounter(trigs[i], vals)],
              LAMBDA sc :
                  With([is_opened |-> TRUE, sample_counter |-> sc, leader_fd |-> -1,
                        fds |-> s.fds, maps |-> s.maps, log |-> <<>>,
                        error |-> "none", errno |-> "none"],
                       LAMBDA st :
                           IF sc = <<>> THEN [st EXCEPT !.error = "NoTriggers"]
                           ELSE SamplerOpenFrom(st, 1, answers, mmaps)))

\* The calls of group().enable() / group().disable() for every sample counter.
RECURSIVE SamplerEnableAll(_, _)
SamplerEnableAll(sc, i) ==
    IF i > Len(sc) THEN <<>> ELSE GroupEnable(sc[i].group) \o SamplerEnableAll(sc, i + 1)

RECURSIVE SamplerDisableAll(_, _)
SamplerDisableAll(sc, i) ==
    IF i > Len(sc) THEN <<>> ELSE GroupDisable(sc[i].group) \o SamplerDisableAll(sc, i + 1)

\* Sampler::start: open(), whose exception ends start; then enable.
SamplerStart(s, trigs, vals, answers, mmaps) ==
    With(SamplerOpen(s, trigs, vals, answers, mmaps), LAMBDA o :
        IF o.error # "none" THEN o
        ELSE [o EXCEPT !.log = @ \o SamplerEnableAll(o.sample_counter, 1)])

\* SampleCounter::~SampleCounter: munmap a buffer that is not null, close the
\* group when its leader's descriptor is > -1. st = [fds, maps, log].
DestroySampleCounter(st, c) ==
    With(IF c.buffer # 0
         THEN [fds |-> st.fds, maps |-> st.maps \ {c.buffer},
               log |-> st.log \o <<[call |-> "munmap", addr |-> c.buffer]>>]
         ELSE st,
         LAMBDA u :
             IF GroupLeaderFd(c.group) > -1
             THEN With(GroupClose(c.group, u.fds), LAMBDA r :
                      [fds |-> r.fds, maps |-> u.maps, log |-> u.log \o r.log])
             ELSE u)

\* _sample_counter.clear(): every element is destroyed.
RECURSIVE DestroySampleCounters(_, _, _)
DestroySampleCounters(st, sc, i) ==
    IF i > Len(sc) THEN st
    ELSE DestroySampleCounters(DestroySampleCounter(st, sc[i]), sc, i + 1)

\* SamplerClose resetting the flag and leaving the sample counters alone.
SamplerCloseOnlyResetsFlag(s) ==
    [is_opened |-> FALSE, sample_counter |-> s.sample_counter, fds |-> s.fds,
     maps |-> s.maps, log |-> <<>>]

\* Sampler::close on s = [is_opened, sample_counter, fds, maps].
SamplerClose(s) ==
    IF s.is_opened
    THEN With(DestroySampleCounters([fds |-> s.fds, maps |-> s.maps, log |-> <<>>],
                                    s.sample_counter, 1),
              LAMBDA d :
                  [is_opened |-> FALSE, sample_counter |-> <<>>, fds |-> d.fds,
                   maps |-> d.maps, log |-> d.log])
    ELSE [is_opened |-> FALSE, sample_counter |-> s.sample_counter, fds |-> s.fds,
          maps |-> s.maps, log |-> <<>>]

(***************************************************************************)
(* The ring buffer. The data area of a mapping is a sequence of 32-bit     *)
(* cells; byte offsets count from the start of the data area (page 1).     *)
(* Cells the kernel has not written are zero. A 64-bit value is two cells, *)
(* low half first; a header is the cell of type and the cell of misc (low  *)
(* 16 bits) and size (high 16 bits).                                       *)
(***************************************************************************)
Cell(data, pos) == IF pos \div 4 + 1 <= Len(data) THEN data[pos \div 4 + 1] ELSE 0

U64At(data, pos) == Cell(data, pos) + Cell(data, pos + 4) * 65536 * 65536

HeaderType(data, pos) == Cell(data, pos)
HeaderMisc(data, pos) == Cell(data, pos + 4) % 65536
HeaderSize(data, pos) == Cell(data, pos + 4) \div 65536

Max(a, b) == IF a >= b THEN a ELSE b

\* The cells of a sequence of 64-bit values.
RECURSIVE U64Cells(_)
U64Cells(v) == IF v = <<>> THEN <<>> ELSE <<Head(v), 0>> \o U64Cells(Tail(v))

\* The {value, id} pairs the kernel reports for the members of a group, from
\* the j-th on.
RECURSIVE U64PairsOfMembers(_, _)
U64PairsOfMembers(g, j) ==
    IF j > Len(g.members) THEN <<>>
    ELSE <<40 + j, g.members[j].id>> \o U64PairsOfMembers(g, j + 1)

\* The order in which the kernel lays out the fields of a SAMPLE record.
KernelFieldOrder ==
    <<"IDENTIFIER", "IP", "TID", "TIME", "ADDR", "STREAM_ID", "CPU", "PERIOD", "READ",
      "CALLCHAIN", "RAW", "BRANCH_STACK", "REGS_USER", "WEIGHT", "WEIGHT_STRUCT",
      "DATA_SRC", "TRANSACTION", "REGS_INTR", "PHYS_ADDR", "CGROUP", "DATA_PAGE_SIZE",
      "CODE_PAGE_SIZE">>

SampleFields == {KernelFieldOrder[i] : i \in 1..Len(KernelFieldOrder)}

\* The cells of one field of a SAMPLE record. v is the field's content as a
\* sequence of numbers: TID <<pid, tid>>; CPU <<cpu>>; READ <<time_enabled,
\* time_running, value_1, id_1, ...>>; CALLCHAIN the instruction pointers; RAW
\* the data, four bytes a number; BRANCH_STACK <<from, to, flags>> per
\* branch; REGS <<abi>> followed by the registers, none when abi is 0;
\* WEIGHT_STRUCT <<var1_dw, var2_w, var3_w>>; any other field <<value>>.
KernelFieldCells(f, v) ==
    CASE f = "TID" -> <<v[1], v[2]>>
      [] f = "CPU" -> <<v[1], 0>>
      [] f = "READ" -> U64Cells(<<(Len(v) - 2) \div 2>>) \o U64Cells(v)
      [] f = "CALLCHAIN" -> U64Cells(<<Len(v)>>) \o U64Cells(v)
      [] f = "RAW" -> <<4 * Len(v)>> \o v
      [] f = "BRANCH_STACK" -> U64Cells(<<Len(v) \div 3>>) \o U64Cells(v)
      [] f = "WEIGHT_STRUCT" -> <<v[1], v[2] + 65536 * v[3]>>
      [] OTHER -> U64Cells(v)

\* The payload of a SAMPLE record: the fields of the mask in kernel order,
\* from the k-th on.
RECURSIVE KernelPayload(_, _)
KernelPayload(fields, k) ==
    IF k > Len(KernelFieldOrder) THEN <<>>
    ELSE IF KernelFieldOrder[k] \in DOMAIN fields
    THEN KernelFieldCells(KernelFieldOrder[k], fields[KernelFieldOrder[k]])
             \o KernelPayload(fields, k + 1)
    ELSE KernelPayload(fields, k + 1)

\* A record as the kernel writes it: header and payload, size in bytes.
KernelRecordCells(type, misc, payload) ==
    <<type, misc + 65536 * (8 + 4 * Len(payload))>> \o payload

(***************************************************************************)
(* The decoder (src/src/sampler.cpp). A decoded field is the sequence of   *)
(* the cells read for it (a 64-bit value is its two halves, low first),    *)
(* <<>> while it is not set (std::nullopt); the counter results of a READ  *)
(* block are numbers.                                                      *)
(* The cursor d = [pos, extent, fields, names] is UserLevelBufferEntry's   *)
(* read position, the end of the furthest byte read so far, and the        *)
(* Sample being filled.                                                    *)
(***************************************************************************)
\* Record types and misc bits of linux/perf_event.h.
PERF_RECORD_LOST == 2
PERF_RECORD_THROTTLE == 5
PERF_RECORD_UNTHROTTLE == 6
PERF_RECORD_SAMPLE == 9
PERF_RECORD_SWITCH == 14
PERF_RECORD_SWITCH_CPU_WIDE == 15
PERF_RECORD_CGROUP == 19
PERF_RECORD_MISC_KERNEL == 1
PERF_RECORD_MISC_USER == 2
PERF_RECORD_MISC_HYPERVISOR == 3
PERF_RECORD_MISC_GUEST_KERNEL == 4
PERF_RECORD_MISC_GUEST_USER == 5
PERF_RECORD_MISC_SWITCH_OUT == 8192
PERF_RECORD_MISC_EXACT_IP == 16384
PERF_RECORD_MISC_SWITCH_OUT_PREEMPT == 16384

RECURSIVE BitAnd(_, _)
BitAnd(a, b) ==
    IF a = 0 \/ b = 0 THEN 0
    ELSE (a % 2) * (b % 2) + 2 * BitAnd(a \div 2, b \div 2)

\* UserLevelBufferEntry::mode.
Mode(misc) ==
    IF BitAnd(misc, PERF_RECORD_MISC_KERNEL) # 0 THEN "Kernel"
    ELSE IF BitAnd(misc, PERF_RECORD_MISC_USER) # 0 THEN "User"
    ELSE IF BitAnd(misc, PERF_RECORD_MISC_HYPERVISOR) # 0 THEN "Hypervisor"
    ELSE IF BitAnd(misc, PERF_RECORD_MISC_GUEST_KERNEL) # 0 THEN "GuestKernel"
    ELSE IF BitAnd(misc, PERF_RECORD_MISC_GUEST_USER) # 0 THEN "GuestUser"
    ELSE "Unknown"

\* Sample{mode}: no optional field is set.
NewSample(mode) ==
    [mode |-> mode, is_exact_ip |-> FALSE, fields |-> [f \in SampleFields |-> <<>>],
     names |-> <<>>, aux |-> <<>>]

\* UserLevelBufferEntry{header}: the header is read, the cursor is behind it.
NewEntry(data, start) ==
    [pos |-> start + 8, extent |-> start + 8,
     sample |-> NewSample(Mode(HeaderMisc(data, start)))]

\* entry.read<T>() for a T of n bytes: the bytes are read, the cursor moves on.
Advance(d, n) == [d EXCEPT !.pos = @ + n, !.extent = Max(@, d.pos + n)]

\* entry.skip<T>() and a pointer from entry.read<T>(n) that is not followed.
Skip(d, n) == [d EXCEPT !.pos = @ + n]

\* n cells from pos on.
CellSeq(data, pos, n) == [i \in 1..n |-> Cell(data, pos + 4 * (i - 1))]

SetField(d, f, v) == [d EXCEPT !.sample.fields[f] = v]

\* value x (time_enabled / time_running); -1 stands for the quotient by zero.
Corrected(value, time_enabled, time_running) ==
    IF time_running = 0 THEN -1 ELSE (value * time_enabled) \div time_running

ReadBlockLeavesValuesUnread(d, data, group_size, counter_names) ==
    With(U64At(data, d.pos), LAMBDA count :
        With(<<U64At(data, d.pos + 8), U64At(data, d.pos + 16)>>, LAMBDA times :
            IF count = group_size
            THEN [Skip(Advance(d, IF count > 0 THEN 16 + 16 * count ELSE 24),
                       IF count > 0 THEN 8 ELSE 0) EXCEPT
                     !.sample.fields["READ"] =
                         [i \in 1..group_size |->
                             Corrected(U64At(data, d.pos + 24 + 16 * (i - 1)), times[1], times[2])],
                     !.sample.names = [i \in 1..group_size |-> counter_names[i]]]
            ELSE Advance(d, 24)))

\* The READ block of read_sample_event.
ReadBlock(d, data, group_size, counter_names) ==
    With(U64At(data, d.pos), LAMBDA count :
        With(<<U64At(data, d.pos + 8), U64At(data, d.pos + 16)>>, LAMBDA times :
            IF count = group_size
            THEN [Skip(Advance(d, IF count > 0 THEN 16 + 16 * count ELSE 24),
                       IF count > 0 THEN 8 ELSE 0) EXCEPT
                     !.sample.fields["READ"] =
                         [i \in 1..group_size |->
                             Corrected(U64At(data, d.pos + 24 + 16 * (i - 1)), times[1], times[2])],
                     !.sample.names = [i \in 1..group_size |-> counter_names[i]]]
            ELSE Skip(Advance(d, 24), 16 * count)))

\* A block of a 64-bit count followed by count entries of width bytes
\* (CALLCHAIN, BRANCH_STACK).
CountedBlock(d, f, data, width) ==
    With(U64At(data, d.pos), LAMBDA count :
        IF count > 0
        THEN SetField(Advance(d, 8 + width * count), f,
                      CellSeq(data, d.pos + 8, (width \div 4) * count))
        ELSE Advance(d, 8))

\* The RAW block: a 32-bit size and size bytes.
RawBlock(d, data) ==
    With(Cell(data, d.pos), LAMBDA size :
        SetField(Advance(d, 4 + size), "RAW", CellSeq(data, d.pos + 4, (size + 3) \div 4)))

\* A register block: the ABI and as many registers as the sampler was
\* configured with.
RegisterBlock(d, f, data, count) ==
    IF count > 0
    THEN SetField(Advance(d, 8 + 8 * count), f, CellSeq(data, d.pos, 2 + 2 * count))
    ELSE SetField(Advance(d, 8), f, CellSeq(data, d.pos, 2))

\* What read_sample_event does for one field whose bit is set.
ReadField(d, f, data, vals, group_size, counter_names) ==
    CASE f = "TID" -> SetField(Advance(d, 8), f, CellSeq(data, d.pos, 2))
      [] f = "CPU" -> SetField(Skip(Advance(d, 4), 4), f, CellSeq(data, d.pos, 1))
      [] f = "READ" -> ReadBlock(d, data, group_size, counter_names)
      [] f = "CALLCHAIN" -> CountedBlock(d, f, data, 8)
      [] f = "RAW" -> RawBlock(d, data)
      [] f = "BRANCH_STACK" -> CountedBlock(d, f, data, 24)
      [] f = "REGS_USER" -> RegisterBlock(d, f, data, vals.user_registers)
      [] f = "REGS_INTR" -> RegisterBlock(d, f, data, vals.kernel_registers)
      [] f = "WEIGHT" -> SetField(Advance(d, 8), f, CellSeq(data, d.pos, 1))
      [] f = "WEIGHT_STRUCT" ->
            SetField(Advance(d, 8), f,
                     <<Cell(data, d.pos), Cell(data, d.pos + 4) % 65536,
                       Cell(data, d.pos + 4) \div 65536>>)
      [] OTHER -> SetField(Advance(d, 8), f, CellSeq(data, d.pos, 2))

\* The order of the if statements of read_sample_event.
SampleEventOrder ==
    <<"IDENTIFIER", "IP", "TID", "TIME", "STREAM_ID", "ADDR", "CPU", "PERIOD", "READ",
      "CALLCHAIN", "RAW", "BRANCH_STACK", "REGS_USER", "WEIGHT", "WEIGHT_STRUCT",
      "DATA_SRC", "TRANSACTION", "REGS_INTR", "PHYS_ADDR", "CGROUP", "DATA_PAGE_SIZE",
      "CODE_PAGE_SIZE">>

\* The order of the if statements of read_sample_id.
SampleIdOrder == <<"TID", "TIME", "STREAM_ID", "CPU", "IDENTIFIER">>

\* Whether the if statement of field f is entered: the mask bit, and for
\* WEIGHT_STRUCT the else of WEIGHT.
IsRead(f, vals) ==
    /\ f \in vals.sample_type
    /\ f = "WEIGHT_STRUCT" => "WEIGHT" \notin vals.sample_type

\* The if statements of order, from the k-th on.
RECURSIVE ReadFields(_, _, _, _, _, _, _)
ReadFields(d, order, k, data, vals, group_size, counter_names) ==
    IF k > Len(order) THEN d
    ELSE IF IsRead(order[k], vals)
    THEN With(ReadField(d, order[k], data, vals, group_size, counter_names), LAMBDA d2 :
             ReadFields(d2, order, k + 1, data, vals, group_size, counter_names))
    ELSE ReadFields(d, order, k + 1, data, vals, group_size, counter_names)

\* Sampler::read_sample_event on the record at start.
ReadSampleEvent(data, start, vals, sc) ==
    With(NewEntry(data, start), LAMBDA e :
        ReadFields([e EXCEPT !.sample.is_exact_ip =
                        BitAnd(HeaderMisc(data, start), PERF_RECORD_MISC_EXACT_IP) # 0],
                   SampleEventOrder, 1, data, vals, Len(sc.group.members), sc.counter_names))

\* Sampler::read_sample_id.
ReadSampleId(d, data, vals) == ReadFields(d, SampleIdOrder, 1, data, vals, 0, <<>>)

\* Sampler::read_loss_event.
ReadLossEvent(data, start, vals) ==
    With(NewEntry(data, start), LAMBDA e :
        ReadSampleId([Advance(e, 8) EXCEPT !.sample.aux = <<"loss">> \o CellSeq(data, e.pos, 2)],
                     data, vals))

\* Sampler::read_context_switch_event.
ReadContextSwitchEvent(data, start, vals) ==
    With(NewEntry(data, start), LAMBDA e :
        With(<<"switch",
               BitAnd(HeaderMisc(data, start), PERF_RECORD_MISC_SWITCH_OUT) # 0,
               BitAnd(HeaderMisc(data, start), PERF_RECORD_MISC_SWITCH_OUT_PREEMPT) # 0>>,
             LAMBDA switch :
                 IF HeaderType(data, start) = PERF_RECORD_SWITCH_CPU_WIDE
                 THEN [ReadSampleId(Advance(e, 8), data, vals) EXCEPT
                          !.sample.aux = switch \o CellSeq(data, e.pos, 2)]
                 ELSE [ReadSampleId(e, data, vals) EXCEPT !.sample.aux = switch]))

\* Sampler::read_cgroup_event: the id and the path, which ends at the first
\* zero; the path is kept at cell granularity.
RECURSIVE PathLength(_, _)
PathLength(data, pos) == IF Cell(data, pos) = 0 THEN 0 ELSE 1 + PathLength(data, pos + 4)

ReadCgroupEvent(data, start) ==
    With(NewEntry(data, start), LAMBDA e :
        With(PathLength(data, e.pos + 8), LAMBDA n :
            [Advance(e, 8) EXCEPT
                !.extent = e.pos + 8 + 4 * (n + 1),
                !.sample.aux = <<"cgroup">> \o CellSeq(data, e.pos, 2 + n)]))

\* Sampler::read_throttle_event.
ReadThrottleEvent(data, start, vals) ==
    With(NewEntry(data, start), LAMBDA e :
        With(ReadFields(e, <<"TIME", "STREAM_ID">>, 1, data, vals, 0, <<>>), LAMBDA t :
            [ReadSampleId(t, data, vals) EXCEPT
                !.sample.aux = <<"throttle", HeaderType(data, start) = PERF_RECORD_THROTTLE>>]))

\* The branch of the walk of Sampler::result for the record at start: the
\* cursor after the decoder that matches the record's type, none for a type
\* result does not handle.
DecodeRecordThrottleAlways(data, start, vals, sc) ==
    With(HeaderType(data, start), LAMBDA type :
        IF type = PERF_RECORD_SAMPLE THEN <<ReadSampleEvent(data, start, vals, sc)>>
        ELSE IF type = PERF_RECORD_LOST THEN <<ReadLossEvent(data, start, vals)>>
        ELSE IF type \in {PERF_RECORD_SWITCH, PERF_RECORD_SWITCH_CPU_WIDE}
        THEN <<ReadContextSwitchEvent(data, start, vals)>>
        ELSE IF type = PERF_RECORD_CGROUP THEN <<ReadCgroupEvent(data, start)>>
        ELSE IF type \in {PERF_RECORD_THROTTLE, PERF_RECORD_UNTHROTTLE}
        THEN <<ReadThrottleEvent(data, start, vals)>>
        ELSE <<>>)

DecodeRecord(data, start, vals, sc) ==
    With(HeaderType(data, start), LAMBDA type :
        IF type = PERF_RECORD_SAMPLE THEN <<ReadSampleEvent(data, start, vals, sc)>>
        ELSE IF type = PERF_RECORD_LOST THEN <<ReadLossEvent(data, start, vals)>>
        ELSE IF type \in {PERF_RECORD_SWITCH, PERF_RECORD_SWITCH_CPU_WIDE}
        THEN <<ReadContextSwitchEvent(data, start, vals)>>
        ELSE IF type = PERF_RECORD_CGROUP THEN <<ReadCgroupEvent(data, start)>>
        ELSE IF type \in {PERF_RECORD_THROTTLE, PERF_RECORD_UNTHROTTLE} /\ vals.is_include_throttle
        THEN <<ReadThrottleEvent(data, start, vals)>>
        ELSE <<>>)

\* The while loop of Sampler::result over one buffer.
\* w = [pos, count, list, extent, hangs]: the iterator, the records passed,
\* the result vector, the furthest byte read, and whether the loop can end;
\* a sample remembers as origin the buffer and the record it was decoded from.
RECURSIVE WalkBufferByConsumedBytes(_, _, _, _, _, _)
WalkBufferByConsumedBytes(w, i, data, end, vals, sc) ==
    IF ~(w.pos < end) THEN w
    ELSE With(DecodeRecord(data, w.pos, vals, sc), LAMBDA ds :
             With([pos |-> IF ds = <<>> THEN w.pos + 8 ELSE ds[1].pos,
                   count |-> w.count + 1,
                   list |-> w.list \o
                       [k \in 1..Len(ds) |->
                           [mode |-> ds[k].sample.mode, is_exact_ip |-> ds[k].sample.is_exact_ip,
                            fields |-> ds[k].sample.fields, names |-> ds[k].sample.names,
                            aux |-> ds[k].sample.aux, origin |-> <<i, w.count + 1>>]],
                   extent |-> IF ds = <<>> THEN Max(w.extent, w.pos + 8)
                              ELSE Max(w.extent, ds[1].extent),
                   hangs |-> HeaderSize(data, w.pos) = 0],
                  LAMBDA w2 :
                      IF w2.hangs THEN w2
                      ELSE WalkBufferByConsumedBytes(w2, i, data, end, vals, sc)))

RECURSIVE WalkBuffer(_, _, _, _, _, _)
WalkBuffer(w, i, data, end, vals, sc) ==
    IF ~(w.pos < end) THEN w
    ELSE With(DecodeRecord(data, w.pos, vals, sc), LAMBDA ds :
             With([pos |-> w.pos + HeaderSize(data, w.pos),
                   count |-> w.count + 1,
                   list |-> w.list \o
                       [k \in 1..Len(ds) |->
                           [mode |-> ds[k].sample.mode, is_exact_ip |-> ds[k].sample.is_exact_ip,
                            fields |-> ds[k].sample.fields, names |-> ds[k].sample.names,
                            aux |-> ds[k].sample.aux, origin |-> <<i, w.count + 1>>]],
                   extent |-> IF ds = <<>> THEN Max(w.extent, w.pos + 8)
                              ELSE Max(w.extent, ds[1].extent),
                   hangs |-> HeaderSize(data, w.pos) = 0],
                  LAMBDA w2 :
                      IF w2.hangs THEN w2 ELSE WalkBuffer(w2, i, data, end, vals, sc)))

\* The for loop of Sampler::result from sample counter i on.
\* r = [list, extent, returned, hangs]: returned is set by the return
\* statement inside the loop.
RECURSIVE ResultFrom(_, _, _, _, _)
ResultFrom(r, i, scs, vals, mem) ==
    IF i > Len(scs) THEN r
    ELSE IF scs[i].buffer = 0 THEN ResultFrom(r, i + 1, scs, vals, mem)
    ELSE IF mem[scs[i].buffer].data_tail >= mem[scs[i].buffer].data_head
    THEN [r EXCEPT !.returned = TRUE]
    ELSE With(WalkBuffer([pos |-> 0, count |-> 0, list |-> r.list, extent |-> 0,
                          hangs |-> FALSE],
                         i, mem[scs[i].buffer].data, mem[scs[i].buffer].data_head, vals, scs[i]),
              LAMBDA w :
                  With([r EXCEPT !.list = w.list, !.extent[i] = w.extent, !.hangs = w.hangs],
                       LAMBDA r2 :
                           IF r2.hangs THEN r2 ELSE ResultFrom(r2, i + 1, scs, vals, mem)))

\* SampleTimestampComparator: by timestamp, a sample without one first. The
\* timestamp is compared high half first.
TimestampOf(sample) ==
    IF sample.fields["TIME"] = <<>> THEN <<-1, -1>>
    ELSE <<sample.fields["TIME"][2], sample.fields["TIME"][1]>>

NotAfter(a, b) ==
    \/ TimestampOf(a)[1] < TimestampOf(b)[1]
    \/ TimestampOf(a)[1] = TimestampOf(b)[1] /\ TimestampOf(a)[2] <= TimestampOf(b)[2]

IsSortedByTime(list) == \A k \in 1..(Len(list) - 1) : NotAfter(list[k], list[k + 1])

\* What std::sort can leave: every ordering of the elements that is sorted
\* (the order of equal timestamps is not specified).
SortOutcomes(list) ==
    {[k \in 1..Len(list) |-> list[p[k]]] :
        p \in {q \in [1..Len(list) -> 1..Len(list)] :
                  /\ \A a, b \in 1..Len(list) : q[a] = q[b] => a = b
                  /\ \A k \in 1..(Len(list) - 1) : NotAfter(list[q[k]], list[q[k + 1]])}}

\* Sampler::result(sort_by_time): the vectors it can return, each with the
\* furthest byte read per buffer.
SamplerResult(scs, vals, mem, sort_by_time) ==
    With(ResultFrom([list |-> <<>>, extent |-> [i \in 1..Len(scs) |-> 0],
                     returned |-> FALSE, hangs |-> FALSE], 1, scs, vals, mem),
         LAMBDA r :
             IF r.returned \/ r.hangs \/ ~("TIME" \in vals.sample_type /\ sort_by_time)
             THEN {r}
             ELSE {[r EXCEPT !.list = l] : l \in SortOutcomes(r.list)})

Ok == [error |-> "none", errno |-> "none"]
Failure(error, errno) == [error |-> error, errno |-> errno]

(***************************************************************************)
(* SpecCounter: one Counter, opened and closed by its owner in any order.  *)
(***************************************************************************)
vars == <<kernel_fds, calls, outcome, counter, config, events, groups, event_counters,
         kernel_maps, values, triggers, is_opened, sample_counter,
         ring, kernel_clock, samples, read_extent, group, kernel_counts, got>>

\* The objects a specification does not use stay as constructed.
NoCounter == counter = NewCounter(0, FALSE)
NoEventCounter ==
    /\ config = [max_groups |-> 1, max_counters_per_group |-> 1]
    /\ events = <<>>
    /\ groups = <<>>
    /\ event_counters = <<>>

NoSampler ==
    /\ values = NewValues
    /\ triggers = <<>>
    /\ is_opened = FALSE
    /\ sample_counter = <<>>

NoGroup ==
    /\ group = NewGroup
    /\ kernel_counts = ZeroCounts
    /\ got = <<>>

\* No result call yet; the contents of the mappings are not looked at.
NoDecode ==
    /\ ring = <<>>
    /\ kernel_clock = 0
    /\ samples = [sort_by_time |-> FALSE, list |-> <<>>, at |-> 0]
    /\ read_extent = <<>>

InitKernel ==
    /\ kernel_fds = {}
    /\ kernel_maps = {}
    /\ calls = <<>>
    /\ outcome = [op |-> "none", result |-> Ok]

InitCounter ==
    /\ InitKernel
    /\ \E p \in 0..MaxPreciseIp, f \in BOOLEAN :
          counter = [NewCounter(p, FALSE) EXCEPT !.is_frequency = f]
    /\ NoEventCounter
    /\ NoSampler
    /\ NoDecode
    /\ NoGroup

\* counter.open(...) without a sample type: counting mode. A Counter used on
\* its own is its group's leader.
DoCounterOpenCounting ==
    \E answer \in Answers :
        \E r \in {CounterOpen(counter, TRUE, FALSE, -1, FALSE, kernel_fds, [p \in {0} |-> answer])} :
            /\ counter' = r.counter
            /\ kernel_fds' = r.fds
            /\ calls' = r.log
            /\ outcome' = [op |-> "open_counting", result |-> Failure(r.error, r.errno)]
            /\ UNCHANGED <<ecVars, samplerVars, decodeVars, groupVars>>

\* counter.open(...) with a sample type: sampling mode. The kernel's answers
\* to the precise_ip values at or below the configured one are arbitrary.
DoCounterOpenSampling ==
    \E table \in [0..counter.precise_ip -> Answers] :
        \E r \in {CounterOpen(counter, TRUE, FALSE, -1, TRUE, kernel_fds, table)} :
            /\ counter' = r.counter
            /\ kernel_fds' = r.fds
            /\ calls' = r.log
            /\ outcome' = [op |-> "open_sampling", result |-> Failure(r.error, r.errno)]
            /\ UNCHANGED <<ecVars, samplerVars, decodeVars, groupVars>>

\* counter.close().
DoCounterClose ==
    \E r \in {CounterClose(counter, kernel_fds)} :
        /\ counter' = r.counter
        /\ kernel_fds' = r.fds
        /\ calls' = r.log
        /\ outcome' = [op |-> "close", result |-> Ok]
        /\ UNCHANGED <<ecVars, samplerVars, decodeVars, groupVars>>

NextCounter == DoCounterOpenCounting \/ DoCounterOpenSampling \/ DoCounterClose

SpecCounter == InitCounter /\ [][NextCounter]_vars

(***************************************************************************)
(* SpecGroup: one Group, opened, started, stopped, read and closed by its  *)
(* owner in any order, while the kernel counts.                            *)
(***************************************************************************)
\* The largest number of counters added to the group.
MaxMembers == 2
\* The number of periods the kernel's clock runs for.
MaxTime == 2

RECURSIVE GroupOf(_)
GroupOf(n) == IF n = 0 THEN NewGroup ELSE GroupAdd(GroupOf(n - 1), 0, FALSE)

InitGroup ==
    /\ InitKernel
    /\ NoCounter
    /\ NoEventCounter
    /\ NoSampler
    /\ NoDecode
    /\ \E n \in 0..MaxMembers : group = GroupOf(n)
    /\ kernel_counts = ZeroCounts
    /\ got = <<>>

\* One period of the kernel's clock of an enabled group: the group is on the
\* PMU (every member counts one event) or multiplexed out (only time_enabled
\* advances).
KernelTick(counts, running) ==
    [counts EXCEPT !.clock = @ + 1,
                   !.time_enabled = @ + 1,
                   !.time_running = IF running THEN @ + 1 ELSE @,
                   !.values = [j \in 1..MAX_MEMBERS |-> IF running THEN @[j] + 1 ELSE @[j]]]

\* The states of the events after no or one period of the clock.
KernelTicks(counts) ==
    {counts} \cup
    IF counts.enabled /\ counts.clock < MaxTime
    THEN {KernelTick(counts, running) : running \in BOOLEAN}
    ELSE {}

\* ioctl(RESET, 0) and ioctl(ENABLE, 0) on a live leader: the leader's count
\* is zeroed and the group counts from now on.
KernelResetEnable(counts, fd, fds) ==
    IF fd \in fds THEN [counts EXCEPT !.values[1] = 0, !.enabled = TRUE] ELSE counts

\* ioctl(DISABLE, 0) on a live leader.
KernelDisable(counts, fd, fds) ==
    IF fd \in fds THEN [counts EXCEPT !.enabled = FALSE] ELSE counts

\* The kernel's answers to the opens of the members: all willing, or one not.
GroupOpenAnswers(g) ==
    {[j \in 1..Len(g.members) |-> IF j = at THEN "EACCES" ELSE "OK"] :
        at \in 0..Len(g.members)}

\* group.open(config) on a group that is not open: the events the kernel
\* creates start at zero.
DoGroupOpen ==
    \E answers \in GroupOpenAnswers(group) :
        \E r \in {GroupOpen(group, kernel_fds, answers)} :
            /\ \A j \in 1..Len(group.members) : group.members[j].fd = -1
            /\ group' = r.group
            /\ kernel_fds' = r.fds
            /\ calls' = r.log
            /\ outcome' = [op |-> "group_open", result |-> Failure(r.error, r.errno), ret |-> r.error = "none"]
            /\ kernel_counts' = NewCounts(kernel_counts)
            /\ got' = <<>>
            /\ UNCHANGED <<counter, ecVars, samplerVars, decodeVars>>

\* group.start(): the kernel may count between the ENABLE and the read.
DoGroupStart ==
    \E status \in ReadAnswers :
        \E counts \in KernelTicks(KernelResetEnable(kernel_counts, GroupLeaderFd(group), kernel_fds)) :
            \E r \in {GroupStart(group, kernel_fds, ReadAnswer(status, counts))} :
                /\ group' = r.group
                /\ calls' = r.log
                /\ outcome' = [op |-> "group_start", result |-> Failure(r.error, "none"), ret |-> r.ret]
                /\ kernel_counts' = IF group.members = <<>> THEN kernel_counts ELSE counts
                /\ got' = <<>>
                /\ UNCHANGED <<kernel_fds, counter, ecVars, samplerVars, decodeVars>>

\* The kernel counts while the owner of the group does its work.
KernelCount ==
    /\ kernel_counts.enabled
    /\ kernel_counts.clock < MaxTime
    /\ \E running \in BOOLEAN : kernel_counts' = KernelTick(kernel_counts, running)
    /\ UNCHANGED <<kernelVars, counter, ecVars, samplerVars, decodeVars, group, got>>

\* group.stop().
DoGroupStop ==
    \E status \in ReadAnswers :
        \E r \in {GroupStop(group, kernel_fds, ReadAnswer(status, kernel_counts))} :
            /\ group' = r.group
            /\ calls' = r.log
            /\ outcome' = [op |-> "group_stop", result |-> Failure(r.error, "none"), ret |-> r.ret]
            /\ kernel_counts' = IF group.members = <<>> THEN kernel_counts
                                ELSE KernelDisable(kernel_counts, GroupLeaderFd(group), kernel_fds)
            /\ got' = <<>>
            /\ UNCHANGED <<kernel_fds, counter, ecVars, samplerVars, decodeVars>>

\* group.get(index) for every index of a member and the first index past them.
DoGroupGet ==
    /\ got' = [i \in 1..(Len(group.members) + 1) |-> GroupGet(group, i - 1)]
    /\ calls' = <<>>
    /\ outcome' = [op |-> "group_get", result |-> Ok, ret |-> TRUE]
    /\ UNCHANGED <<kernel_fds, counter, ecVars, samplerVars, decodeVars, group, kernel_counts>>

\* group.close(): the kernel drops the events with their descriptors.
DoGroupClose ==
    \E r \in {GroupClose(group, kernel_fds)} :
        /\ group' = r.group
        /\ kernel_fds' = r.fds
        /\ calls' = r.log
        /\ outcome' = [op |-> "group_close", result |-> Ok, ret |-> TRUE]
        /\ kernel_counts' = IF r.log = <<>> THEN kernel_counts ELSE NewCounts(kernel_counts)
        /\ got' = <<>>
        /\ UNCHANGED <<counter, ecVars, samplerVars, decodeVars>>

NextGroup ==
    \/ DoGroupOpen
    \/ DoGroupStart
    \/ KernelCount
    \/ DoGroupStop
    \/ DoGroupGet
    \/ DoGroupClose

SpecGroup == InitGroup /\ [][NextGroup]_vars

(***************************************************************************)
(* SpecAdd: one EventCounter whose owner adds names.                       *)
(***************************************************************************)
\* The setters of Config take any std::uint8_t. max_groups = 0 is left out:
\* the internal add then reads back() of an empty vector.
Configs ==
    [max_groups : 1..MaxGroupsTried, max_counters_per_group : 0..MaxCountersPerGroupTried]

InitAdd ==
    /\ InitKernel
    /\ NoCounter
    /\ NoGroup
    /\ NoSampler
    /\ NoDecode
    /\ config \in Configs
    /\ events = <<>>
    /\ groups = <<>>
    /\ event_counters = <<>>

(***************************************************************************)
(* Spec: one EventCounter, configured by a script of add calls, whose      *)
(* owner starts and stops it in any order.                                 *)
(***************************************************************************)
\* The add calls made before the first start.
AddScripts ==
    {<<>>,
     <<"cycles">>,
     <<"cycles", "">>,
     <<"cycles", "instructions">>,
     <<"cycles", "", "instructions">>,
     <<"ipc">>}

\* The event list and the groups after the add calls of a script; a call
\* that throws leaves what it had changed and the script goes on.
RECURSIVE AfterAdds(_, _, _, _)
AfterAdds(st, cfg, script, k) ==
    IF k > Len(script) THEN st
    ELSE With(ECAdd(st, cfg, script[k]), LAMBDA r :
             AfterAdds([events |-> r.events, groups |-> r.groups], cfg, script, k + 1))

Init ==
    /\ InitKernel
    /\ NoCounter
    /\ NoGroup
    /\ NoSampler
    /\ NoDecode
    /\ config \in Configs
    /\ \E script \in AddScripts :
          \E st \in {AfterAdds([events |-> <<>>, groups |-> <<>>], config, script, 1)} :
              events = st.events /\ groups = st.groups
    /\ event_counters = <<>>

\* The kernel's answers to the perf_event_open of every member of every
\* group: all willing, or all but one (the members after a failure are not
\* opened).
OpenAnswers(gs) ==
    LET slots == {<<g, j>> : g \in 1..Len(gs), j \in 1..8}
        used == {x \in slots : x[2] <= Len(gs[x[1]].members)}
    IN  {[g \in 1..Len(gs) |-> [j \in 1..Len(gs[g].members) |->
              IF <<g, j>> = at THEN e ELSE "OK"]] :
          at \in used \cup {<<0, 0>>}, e \in {"EINVAL", "EACCES"}}

\* The kernel's answers to the read(2) on every group's leader: data, or data
\* for all but one group.
GroupReadAnswers(gs) ==
    {[g \in 1..Len(gs) |-> ReadAnswer(IF g = at THEN a ELSE "data", kernel_counts)] :
        at \in 0..Len(gs), a \in ReadAnswers \ {"data"}}

\* event_counter.add(name).
DoAdd ==
    \E name \in AddNames :
        \E r \in {ECAdd([events |-> events, groups |-> groups], config, name)} :
            /\ Len(events) < MaxEvents
            /\ events' = r.events
            /\ groups' = r.groups
            /\ calls' = <<>>
            /\ outcome' = [op |-> "add", result |-> Failure(r.error, "none"), name |-> name]
            /\ UNCHANGED <<kernel_fds, counter, config, event_counters, samplerVars, decodeVars, groupVars>>

\* event_counter.start().
DoStart ==
    \E answers \in OpenAnswers(groups), reads \in GroupReadAnswers(groups) :
        \E r \in {ECStart(groups, kernel_fds, answers, reads)} :
            /\ groups' = r.groups
            /\ kernel_fds' = r.fds
            /\ calls' = r.log
            /\ outcome' = [op |-> "start", result |-> Failure(r.error, r.errno)]
            /\ UNCHANGED <<counter, config, events, event_counters, samplerVars, decodeVars, groupVars>>

\* event_counter.stop().
DoStop ==
    \E reads \in GroupReadAnswers(groups) :
        \E r \in {ECStop(groups, kernel_fds, reads)} :
            /\ groups' = r.groups
            /\ kernel_fds' = r.fds
            /\ calls' = r.log
            /\ outcome' = [op |-> "stop", result |-> Ok]
            /\ UNCHANGED <<counter, config, events, event_counters, samplerVars, decodeVars, groupVars>>

\* event_counter.result().
DoCounterResult ==
    /\ got' = ECResult(events, groups, 1)
    /\ calls' = <<>>
    /\ outcome' = [op |-> "counter_result", result |-> Ok, name |-> ""]
    /\ UNCHANGED <<kernel_fds, counter, ecVars, samplerVars, decodeVars, group, kernel_counts>>

NextAdd == DoAdd \/ DoCounterResult

SpecAdd == InitAdd /\ [][NextAdd]_vars

Next == DoStart \/ DoStop

Spec == Init /\ [][Next]_vars

(***************************************************************************)
(* SpecMulti: one MultiProcessEventCounter, configured by a script of add  *)
(* calls, whose owner starts and stops it and asks for the result.         *)
(***************************************************************************)
\* The most instances (process ids) of the wrapper.
MaxInstances == 2

\* a + b on doubles: a value next to 2^64 absorbs one below 1024.
DAdd(a, b) ==
    IF a.kind = "nan" \/ b.kind = "nan" THEN DNaN
    ELSE IF a.kind = "inf" \/ b.kind = "inf" THEN DInf
    ELSE IF a.num = 0 THEN b
    ELSE IF b.num = 0 THEN a
    ELSE IF a.exp > b.exp THEN a
    ELSE IF b.exp > a.exp THEN b
    ELSE DFinite(a.num * b.den + b.num * a.den, a.den * b.den, a.exp)

\* MultiEventCounterBase::add(event_counter, counter_name) from instance i
\* on: the exception of an instance's add ends the loop.
RECURSIVE MultiAddFrom(_, _, _, _)
MultiAddFrom(ecs, cfg, name, i) ==
    IF i > Len(ecs) THEN [event_counters |-> ecs, error |-> "none"]
    ELSE With(ECAdd(ecs[i], cfg, name), LAMBDA r :
             With([ecs EXCEPT ![i] = [events |-> r.events, groups |-> r.groups]], LAMBDA ecs2 :
                 IF r.error # "none" THEN [event_counters |-> ecs2, error |-> r.error]
                 ELSE MultiAddFrom(ecs2, cfg, name, i + 1)))

\* The instances after the add calls of a script; a call that throws leaves
\* what it had changed and the script goes on.
RECURSIVE AfterMultiAdds(_, _, _, _)
AfterMultiAdds(ecs, cfg, script, k) ==
    IF k > Len(script) THEN ecs
    ELSE AfterMultiAdds(MultiAddFrom(ecs, cfg, script[k], 1).event_counters, cfg, script, k + 1)

\* The add calls made before the first start.
MultiAddScripts ==
    {<<"cycles">>,
     <<"cycles", "", "instructions">>,
     <<"ipc">>,
     <<"cycles", "cycles">>,
     <<"broken-metric">>,
     <<"cycles", "no-such-name">>}

\* MultiProcessEventCounter(counter_list, process_ids, config): one
\* EventCounter without events per process id.
InitMulti ==
    /\ InitKernel
    /\ NoCounter
    /\ NoGroup
    /\ NoSampler
    /\ NoDecode
    /\ config \in Configs
    /\ events = <<>>
    /\ groups = <<>>
    /\ \E n \in 1..MaxInstances, script \in MultiAddScripts :
          event_counters =
              AfterMultiAdds([i \in 1..n |-> [events |-> <<>>, groups |-> <<>>]], config, script, 1)

\* MultiProcessEventCounter::start from instance i on: start of every
\* instance, in order; the first exception leaves the loop and the function.
\* st = [event_counters, fds, log, error, errno].
RECURSIVE MultiStartFrom(_, _, _, _)
MultiStartFrom(st, i, answers, reads) ==
    IF i > Len(st.event_counters) THEN st
    ELSE With(ECStart(st.event_counters[i].groups, st.fds, answers[i], reads[i]), LAMBDA r :
             With([event_counters |-> [st.event_counters EXCEPT ![i].groups = r.groups],
                   fds |-> r.fds, log |-> st.log \o r.log, error |-> r.error, errno |-> r.errno],
                  LAMBDA st2 :
                      IF st2.error # "none" THEN st2
                      ELSE MultiStartFrom(st2, i + 1, answers, reads)))

\* MultiProcessEventCounter::stop from instance i on. st = [event_counters, fds, log].
RECURSIVE MultiStopFrom(_, _, _)
MultiStopFrom(st, i, reads) ==
    IF i > Len(st.event_counters) THEN st
    ELSE With(ECStop(st.event_counters[i].groups, st.fds, reads[i]), LAMBDA r :
             MultiStopFrom([event_counters |-> [st.event_counters EXCEPT ![i].groups = r.groups],
                            fds |-> r.fds, log |-> st.log \o r.log], i + 1, reads))

\* What `event_counter._groups[id]` can read in an instance that has no group
\* id (the index is not checked): the get of whatever lies behind the vector.
OutsideReads == {DZero, DFinite(5, 1, 0)}

\* std::accumulate over the instances from instance i on, for the slot
\* (id, in_group_id) of the reference instance's event.
RECURSIVE AccumulateFrom(_, _, _, _, _, _)
AccumulateFrom(sum, ecs, i, id, in_group_id, outside) ==
    IF i > Len(ecs) THEN sum
    ELSE AccumulateFrom(DAdd(sum, IF id < Len(ecs[i].groups)
                                  THEN GroupGet(ecs[i].groups[id + 1], in_group_id)
                                  ELSE outside),
                        ecs, i + 1, id, in_group_id, outside)

\* First loop of MultiEventCounterBase::result: for every counter event of
\* the reference instance, from the k-th on, the sum over the instances
\* divided by the normalization.
RECURSIVE AggregatedHardwareEventValues(_, _, _, _)
AggregatedHardwareEventValues(ecs, normalization, k, outside) ==
    IF k > Len(ecs[1].events) THEN <<>>
    ELSE (IF ecs[1].events[k].is_counter
          THEN <<[name |-> ecs[1].events[k].name,
                  value |-> DDiv(AccumulateFrom(DZero, ecs, 1, ecs[1].events[k].group_id,
                                                ecs[1].events[k].in_group_id, outside),
                                 ToDouble(U64Sub(normalization, 0)))]>>
          ELSE <<>>)
         \o AggregatedHardwareEventValues(ecs, normalization, k + 1, outside)

\* Whether the first loop indexes a vector of groups outside its elements.
ReadsOutsideGroups(ecs) ==
    \E k \in 1..Len(ecs[1].events), i \in 1..Len(ecs) :
        ecs[1].events[k].is_counter /\ ecs[1].events[k].group_id >= Len(ecs[i].groups)

\* MultiEventCounterBase::result(event_counters, normalization): what the
\* call can return, or its crash.
MultiResult(ecs, normalization) ==
    IF ReadsOutsideGroups(ecs)
    THEN {[list |-> RequestedValues(ecs[1].events,
                                    AggregatedHardwareEventValues(ecs, normalization, 1, o), 1),
           error |-> "none"] : o \in OutsideReads}
         \cup {[list |-> <<>>, error |-> "Crash"]}
    ELSE {[list |-> RequestedValues(ecs[1].events,
                                    AggregatedHardwareEventValues(ecs, normalization, 1, DZero), 1),
           error |-> "none"]}

\* The kernel's state of an instance's events at its stop.
StopCounts ==
    {[ZeroCounts EXCEPT !.time_enabled = 2, !.time_running = r,
                        !.values = [j \in 1..MAX_MEMBERS |-> v]] :
        r \in {2}, v \in {1, 2}}

\* multi_event_counter.start(): the kernel is willing (it still answers
\* EMFILE when the descriptor table is full).
DoMultiStart ==
    \E r \in {MultiStartFrom([event_counters |-> event_counters, fds |-> kernel_fds,
                                log |-> <<>>, error |-> "none", errno |-> "none"], 1,
                               [i \in 1..Len(event_counters) |->
                                   [g \in 1..Len(event_counters[i].groups) |->
                                       [j \in 1..Len(event_counters[i].groups[g].members) |-> "OK"]]],
                               [i \in 1..Len(event_counters) |->
                                   [g \in 1..Len(event_counters[i].groups) |->
                                       ReadAnswer("data", ZeroCounts)]])} :
        /\ event_counters' = r.event_counters
        /\ kernel_fds' = r.fds
        /\ calls' = r.log
        /\ outcome' = [op |-> "multi_start", result |-> Failure(r.error, r.errno)]
        /\ UNCHANGED <<counter, config, events, groups, samplerVars, decodeVars, groupVars>>

\* multi_event_counter.stop().
DoMultiStop ==
    \E counts \in [1..Len(event_counters) -> StopCounts] :
        \E r \in {MultiStopFrom([event_counters |-> event_counters, fds |-> kernel_fds,
                                   log |-> <<>>], 1,
                                  [i \in 1..Len(event_counters) |->
                                      [g \in 1..Len(event_counters[i].groups) |->
                                          ReadAnswer("data", counts[i])]])} :
            /\ event_counters' = r.event_counters
            /\ kernel_fds' = r.fds
            /\ calls' = r.log
            /\ outcome' = [op |-> "multi_stop", result |-> Ok]
            /\ UNCHANGED <<counter, config, events, groups, samplerVars, decodeVars, groupVars>>

\* multi_event_counter.result(normalization).
DoMultiResult ==
    \E normalization \in 1..2 :
        \E r \in MultiResult(event_counters, normalization) :
            /\ got' = r.list
            /\ calls' = <<>>
            /\ outcome' = [op |-> "multi_result", result |-> Failure(r.error, "none"),
                           normalization |-> normalization]
            /\ UNCHANGED <<kernel_fds, counter, ecVars, samplerVars, decodeVars, group, kernel_counts>>

NextMulti == DoMultiStart \/ DoMultiStop \/ DoMultiResult

SpecMulti == InitMulti /\ [][NextMulti]_vars

(***************************************************************************)
(* SpecSampler: one Sampler whose owner adds trigger groups and opens,     *)
(* starts, stops and closes it in any order.                               *)
(***************************************************************************)
\* The most trigger groups a sampler is given.
MaxTriggerGroups == 2

\* The arguments of the trigger calls tried: a trigger group is never empty
\* (Sampler::open reads member 0 of every group); the last is one group of
\* one trigger more than a snapshot has slots.
TriggerInputs ==
    {<<>>,
     <<<<"cycles">>>>,
     <<<<"cycles">>, <<"instructions">>>>,
     <<<<"mem-loads-aux", "cycles">>>>,
     <<<<"mem-loads-aux">>>>,
     <<<<"cycles">>, <<"ipc">>>>,
     <<<<"cycles", "no-such-name">>>>,
     <<[j \in 1..(MAX_MEMBERS + 1) |-> "cycles"]>>}

\* The sample configurations tried: nothing recorded, or the value of one
\* more counter recorded with every sample.
SamplerValues ==
    {NewValues, [NewValues EXCEPT !.sample_type = {"READ"}, !.counters = <<"instructions">>]}

InitSampler ==
    /\ InitKernel
    /\ NoCounter
    /\ NoGroup
    /\ NoEventCounter
    /\ NoDecode
    /\ values \in SamplerValues
    /\ triggers = <<>>
    /\ is_opened = FALSE
    /\ sample_counter = <<>>

\* The members the group of a trigger group gets.
MembersOf(trigger_group, vals) ==
    Len(trigger_group) + IF "READ" \in vals.sample_type THEN Len(vals.counters) ELSE 0

\* The tables of answers of a kernel that is not willing at every precise_ip:
\* it refuses the event, it rejects every precision, or it rejects the
\* configured precision and takes the lower ones.
UnwillingTables ==
    {[p \in 0..DefaultPreciseIp |-> "EACCES"],
     [p \in 0..DefaultPreciseIp |-> "EINVAL"],
     [p \in 0..DefaultPreciseIp |-> IF p = DefaultPreciseIp THEN "EINVAL" ELSE "OK"]}

\* The kernel's answers to the perf_event_open attempts of an open call: a
\* table per member, all willing or all but one member's.
SamplerOpenAnswers(trigs, vals) ==
    {[i \in 1..Len(trigs) |-> [j \in 1..MembersOf(trigs[i], vals) |->
          IF <<i, j>> = at THEN table ELSE [p \in 0..DefaultPreciseIp |-> "OK"]]] :
      at \in {<<i, j>> \in (1..Len(trigs)) \X (1..(MAX_MEMBERS + 2)) :
                j <= MembersOf(trigs[i], vals)},
      table \in UnwillingTables}
    \cup {[i \in 1..Len(trigs) |-> [j \in 1..MembersOf(trigs[i], vals) |->
              [p \in 0..DefaultPreciseIp |-> "OK"]]]}

\* The kernel's answers to the mmap of every trigger group: all mapped, or
\* all but one.
SamplerMmapAnswers(trigs) ==
    {[i \in 1..Len(trigs) |-> IF i = at THEN a ELSE "ok"] :
        at \in 0..Len(trigs), a \in MmapAnswers \ {"ok"}}

\* An open call on an opened sampler returns before any system call: the
\* kernel is not asked.
AnswersToOpen == IF is_opened THEN {<<>>} ELSE SamplerOpenAnswers(triggers, values)
AnswersToMmap == IF is_opened THEN {<<>>} ELSE SamplerMmapAnswers(triggers)

\* Of a refused perf_event_open and a failed mmap only the first is reached:
\* the answers tried hold one or the other.
OneFailureAtMost(answers, mmaps) ==
    \/ \A i \in DOMAIN answers : \A j \in DOMAIN answers[i] : answers[i][j][0] = "OK"
    \/ \A i \in DOMAIN mmaps : mmaps[i] = "ok"

\* The Sampler as the operators take it.
ThisSampler ==
    [is_opened |-> is_opened, sample_counter |-> sample_counter,
     fds |-> kernel_fds, maps |-> kernel_maps]

\* sampler.trigger(...).
DoTrigger ==
    \E input \in TriggerInputs :
        \E r \in {SamplerTrigger([triggers |-> triggers, error |-> "none"], input, 1)} :
            /\ Len(triggers) + Len(input) <= MaxTriggerGroups
            /\ triggers' = r.triggers
            /\ calls' = <<>>
            /\ outcome' = [op |-> "trigger", result |-> Failure(r.error, "none"),
                            input |-> input]
            /\ UNCHANGED <<kernel_fds, kernel_maps, values, is_opened, sample_counter,
                           counter, ecVars, decodeVars, groupVars>>

\* sampler.open().
DoOpen ==
    \E answers \in AnswersToOpen, mmaps \in AnswersToMmap :
        /\ OneFailureAtMost(answers, mmaps)
        /\ \E r \in {SamplerOpen(ThisSampler, triggers, values, answers, mmaps)} :
            /\ is_opened' = r.is_opened
            /\ sample_counter' = r.sample_counter
            /\ kernel_fds' = r.fds
            /\ kernel_maps' = r.maps
            /\ calls' = r.log
            /\ outcome' = [op |-> "open", result |-> Failure(r.error, r.errno)]
            /\ UNCHANGED <<values, triggers, counter, ecVars, decodeVars, groupVars>>

\* sampler.start().
DoSamplerStart ==
    \E answers \in AnswersToOpen, mmaps \in AnswersToMmap :
        /\ OneFailureAtMost(answers, mmaps)
        /\ \E r \in {SamplerStart(ThisSampler, triggers, values, answers, mmaps)} :
            /\ is_opened' = r.is_opened
            /\ sample_counter' = r.sample_counter
            /\ kernel_fds' = r.fds
            /\ kernel_maps' = r.maps
            /\ calls' = r.log
            /\ outcome' = [op |-> "start", result |-> Failure(r.error, r.errno)]
            /\ UNCHANGED <<values, triggers, counter, ecVars, decodeVars, groupVars>>

\* sampler.stop().
DoSamplerStop ==
    /\ calls' = SamplerDisableAll(sample_counter, 1)
    /\ outcome' = [op |-> "stop", result |-> Ok]
    /\ UNCHANGED <<kernel_fds, kernel_maps, values, triggers, is_opened, sample_counter,
                   counter, ecVars, decodeVars, groupVars>>

\* sampler.close().
DoSamplerClose ==
    \E r \in {SamplerClose(ThisSampler)} :
        /\ is_opened' = r.is_opened
        /\ sample_counter' = r.sample_counter
        /\ kernel_fds' = r.fds
        /\ kernel_maps' = r.maps
        /\ calls' = r.log
        /\ outcome' = [op |-> "close", result |-> Ok]
        /\ UNCHANGED <<values, triggers, counter, ecVars, decodeVars, groupVars>>

NextSampler == DoTrigger \/ DoOpen \/ DoSamplerStart \/ DoSamplerStop \/ DoSamplerClose

SpecSampler == InitSampler /\ [][NextSampler]_vars

(***************************************************************************)
(* SpecDecode: an opened Sampler; the kernel writes records into the ring  *)
(* buffers of its trigger groups and the owner calls result().             *)
(***************************************************************************)
\* The most trigger groups (ring buffers) of the sampler.
MaxBuffers == 3
\* The most records the kernel writes, all buffers together.
MaxRecords == 2

\* The sample configurations tried.
AllButWeightStruct == SampleFields \ {"WEIGHT_STRUCT"}
DecodeValues ==
    {[NewValues EXCEPT !.sample_type = {"TIME"}],
     [NewValues EXCEPT !.sample_type = {"TIME", "ADDR", "STREAM_ID"}],
     [NewValues EXCEPT !.sample_type = {"TIME", "REGS_USER"}, !.user_registers = 1],
     [NewValues EXCEPT !.sample_type = AllButWeightStruct, !.user_registers = 1,
                       !.kernel_registers = 1]}

\* The sampler after trigger() with n groups of one event and an open() that
\* the kernel served.
OpenedSampler(n, vals) ==
    SamplerOpen([is_opened |-> FALSE, sample_counter |-> <<>>, fds |-> {}, maps |-> {}],
                [i \in 1..n |-> <<"cycles">>], vals,
                [i \in 1..n |-> [j \in 1..MembersOf(<<"cycles">>, vals) |->
                                    [p \in 0..DefaultPreciseIp |-> "OK"]]],
                [i \in 1..n |-> "ok"])

\* A fresh mapping: nothing written, nothing consumed.
NewPage == [data_head |-> 0, data_tail |-> 0, data |-> <<>>, records |-> <<>>]

InitDecode ==
    /\ NoCounter
    /\ NoGroup
    /\ NoEventCounter
    /\ values \in DecodeValues
    /\ \E n \in 1..MaxBuffers :
          \E s \in {OpenedSampler(n, values)} :
              /\ triggers = [i \in 1..n |-> <<"cycles">>]
              /\ is_opened = s.is_opened
              /\ sample_counter = s.sample_counter
              /\ kernel_fds = s.fds
              /\ kernel_maps = s.maps
              /\ calls = s.log
              /\ outcome = [op |-> "open", result |-> Failure(s.error, s.errno)]
              /\ ring = [a \in s.maps |-> NewPage]
              /\ read_extent = [i \in 1..n |-> 0]
    /\ kernel_clock = 0
    /\ samples = [sort_by_time |-> FALSE, list |-> <<>>, at |-> 0]

\* Where the sample was taken: in user code, or in a kernel thread, which has
\* no user registers (the register block is the ABI word 0 alone).
SampleContexts == {"user", "kernel_thread"}

\* The content of the field f of a SAMPLE record taken at time t for the
\* group g in the context ctx (see KernelFieldCells for the shapes).
KernelFieldContent(f, t, g, ctx, vals) ==
    CASE f \in {"IDENTIFIER", "STREAM_ID"} -> <<g.members[1].id>>
      [] f = "IP" -> <<64 + t>>
      [] f = "TID" -> <<7, 8>>
      [] f = "TIME" -> <<t>>
      [] f = "ADDR" -> <<32 + t>>
      [] f = "CPU" -> <<1>>
      [] f = "READ" -> <<2, 2>> \o U64PairsOfMembers(g, 1)
      [] f = "CALLCHAIN" -> <<64 + t>>
      [] f = "RAW" -> <<9>>
      [] f = "BRANCH_STACK" -> <<64, 65, 1>>
      [] f = "REGS_USER" ->
            IF ctx = "user" THEN <<2>> \o [k \in 1..vals.user_registers |-> 10 + k] ELSE <<0>>
      [] f = "REGS_INTR" -> <<2>> \o [k \in 1..vals.kernel_registers |-> 20 + k]
      [] f = "WEIGHT_STRUCT" -> <<3, 4, 5>>
      [] OTHER -> <<6>>

\* The record the kernel writes for a sample.
KernelSample(t, g, ctx, vals) ==
    [type |-> PERF_RECORD_SAMPLE,
     misc |-> IF ctx = "user" THEN PERF_RECORD_MISC_USER ELSE PERF_RECORD_MISC_KERNEL,
     fields |-> [f \in vals.sample_type |-> KernelFieldContent(f, t, g, ctx, vals)]]

\* The kernel takes a sample for trigger group i and writes it to the
\* group's ring buffer, moving data_head behind it.
KernelWrite ==
    \E i \in 1..Len(sample_counter), ctx \in SampleContexts :
        \E rec \in {KernelSample(kernel_clock + 1, sample_counter[i].group, ctx, values)} :
            \E cells \in {KernelRecordCells(rec.type, rec.misc, KernelPayload(rec.fields, 1))} :
                /\ kernel_clock < MaxRecords
                /\ sample_counter[i].buffer \in DOMAIN ring
                /\ kernel_clock' = kernel_clock + 1
                /\ ring' = [ring EXCEPT ![sample_counter[i].buffer] =
                               [data_head |-> @.data_head + 4 * Len(cells),
                                data_tail |-> @.data_tail,
                                data |-> @.data \o cells,
                                records |-> Append(@.records, rec)]]
                /\ UNCHANGED <<kernelVars, counter, ecVars, samplerVars, samples, read_extent, groupVars>>

\* DoResult consuming what it has read: data_tail is moved to data_head.
DoResultConsumes ==
    \E sort_by_time \in BOOLEAN :
        \E r \in SamplerResult(sample_counter, values, ring, sort_by_time) :
            /\ samples' = [sort_by_time |-> sort_by_time, list |-> r.list, at |-> kernel_clock]
            /\ read_extent' = r.extent
            /\ calls' = <<>>
            /\ outcome' = [op |-> "result",
                           result |-> IF r.hangs THEN Failure("NeverReturns", "none") ELSE Ok,
                           again_after_stop |-> /\ outcome.op = "stop"
                                                /\ samples.at = kernel_clock
                                                /\ samples.sort_by_time = sort_by_time
                                                /\ samples.list # <<>>]
            /\ ring' = [a \in DOMAIN ring |-> [ring[a] EXCEPT !.data_tail = ring[a].data_head]]
            /\ UNCHANGED <<kernel_fds, counter, ecVars, samplerVars, kernel_clock, groupVars>>

\* The bytes of the data area of a mapping (the mapping is one page more);
\* -1 for a mapping that is larger than everything the kernel writes.
DataAreaBytes(page) == IF "size" \in DOMAIN page THEN page.size ELSE -1

\* What the walk can find behind the end of a mapping (the addresses from
\* the end of the mapping to page 1 + data_head are not part of it): zeros,
\* or words that read as records of eight bytes of no known type.
BeyondMapping == {0, 8 * 65536}

\* The memory result() can see: the data area of every mapping, followed up
\* to data_head by what lies behind the mapping.
MemoryViews(mem) ==
    IF \A a \in DOMAIN mem : mem[a].data_head <= 4 * Len(mem[a].data)
    THEN {mem}
    ELSE {[a \in DOMAIN mem |->
              [mem[a] EXCEPT !.data =
                  @ \o [k \in 1..(mem[a].data_head \div 4 + 2 - Len(mem[a].data)) |-> g]]] :
            g \in BeyondMapping}

\* Whether a walk has read bytes behind the end of a mapping.
ReadsOutsideMapping(scs, mem, extent) ==
    \E i \in 1..Len(scs) :
        /\ scs[i].buffer \in DOMAIN mem
        /\ DataAreaBytes(mem[scs[i].buffer]) >= 0
        /\ extent[i] > DataAreaBytes(mem[scs[i].buffer])

\* sampler.result(sort_by_time). A read outside a mapping is undefined: the
\* process is killed, or the read returns what lies there.
DoResult ==
    \E sort_by_time \in BOOLEAN, view \in MemoryViews(ring) :
        \E r \in SamplerResult(sample_counter, values, view, sort_by_time) :
          \E crash \in IF ReadsOutsideMapping(sample_counter, ring, r.extent)
                        THEN BOOLEAN ELSE {FALSE} :
            /\ samples' = [sort_by_time |-> sort_by_time, list |-> r.list, at |-> kernel_clock]
            /\ read_extent' = r.extent
            /\ calls' = <<>>
            /\ outcome' = [op |-> "result",
                           result |-> IF crash THEN Failure("Crash", "none")
                                      ELSE IF r.hangs THEN Failure("NeverReturns", "none")
                                      ELSE Ok,
                           again_after_stop |-> /\ outcome.op = "stop"
                                                /\ samples.at = kernel_clock
                                                /\ samples.sort_by_time = sort_by_time
                                                /\ samples.list # <<>>]
            /\ UNCHANGED <<kernel_fds, counter, ecVars, samplerVars, ring, kernel_clock, groupVars>>

NextDecode == KernelWrite \/ DoResult

SpecDecode == InitDecode /\ [][NextDecode]_vars

(***************************************************************************)
(* SpecRecords: an opened Sampler with one trigger group; the kernel       *)
(* writes records of every kind into its ring buffer and the owner calls   *)
(* result() and stop().                                                    *)
(***************************************************************************)
\* A record type of linux/perf_event.h that result() has no decoder for.
PERF_RECORD_COMM == 3

\* The number of records the kernel writes at most.
MaxWalked == 3

\* The sample configurations tried: the time alone, and the time, the
\* counter values of the group (the trigger and one more counter) and the
\* callchain.
RecordValues ==
    {[NewValues EXCEPT !.sample_type = {"TIME"}],
     [NewValues EXCEPT !.sample_type = {"TIME", "READ", "CALLCHAIN"},
                       !.counters = <<"instructions">>]}

InitRecords ==
    /\ NoCounter
    /\ NoGroup
    /\ NoEventCounter
    /\ values \in RecordValues
    /\ \E s \in {OpenedSampler(1, values)} :
          /\ triggers = <<<<"cycles">>>>
          /\ is_opened = s.is_opened
          /\ sample_counter = s.sample_counter
          /\ kernel_fds = s.fds
          /\ kernel_maps = s.maps
          /\ calls = s.log
          /\ outcome = [op |-> "open", result |-> Failure(s.error, s.errno)]
          /\ ring = [a \in s.maps |-> NewPage]
          /\ read_extent = <<0>>
    /\ kernel_clock = 0
    /\ samples = [sort_by_time |-> FALSE, list |-> <<>>, at |-> 0]

\* The content of a READ block that reports count members.
ReadContentOf(count) ==
    <<2, 2>> \o [k \in 1..(2 * count) |-> IF k % 2 = 1 THEN 40 + (k + 1) \div 2 ELSE 200 + k \div 2]

\* A record followed by pad cells that belong to none of its fields.
Padded(rec, pad) ==
    [type |-> rec.type, misc |-> rec.misc, fields |-> rec.fields, pad |-> pad]

\* The records the kernel may write at time t for the group g: a sample
\* taken in user code or in a kernel thread and, for a sampler that records
\* the counter values too, a sample whose READ block reports one member
\* less or one more than the group has, a sample followed by a field this
\* decoder does not know, and a record of a type without decoder.
KernelRecordsAt(t, g, vals) ==
    IF "READ" \notin vals.sample_type
    THEN {Padded(KernelSample(t, g, ctx, vals), 0) : ctx \in SampleContexts}
    ELSE {Padded(KernelSample(t, g, "user", vals), pad) : pad \in {0, 2}}
         \cup {Padded([KernelSample(t, g, "user", vals) EXCEPT
                          !.fields["READ"] = ReadContentOf(count)], 0) :
                  count \in {Len(g.members) - 1, Len(g.members) + 1}}
         \cup {Padded([type |-> PERF_RECORD_COMM, misc |-> PERF_RECORD_MISC_USER,
                       fields |-> [f \in {"TIME"} |-> <<t>>]], 0)}

\* The kernel writes one of these records to the ring buffer, moving
\* data_head behind it.
KernelWriteRecord ==
    \E rec \in KernelRecordsAt(kernel_clock + 1, sample_counter[1].group, values) :
        \E cells \in {KernelRecordCells(rec.type, rec.misc,
                                        KernelPayload(rec.fields, 1) \o [k \in 1..rec.pad |-> 77])} :
            /\ kernel_clock < MaxWalked
            /\ sample_counter[1].buffer \in DOMAIN ring
            /\ kernel_clock' = kernel_clock + 1
            /\ ring' = [ring EXCEPT ![sample_counter[1].buffer] =
                           [data_head |-> @.data_head + 4 * Len(cells),
                            data_tail |-> @.data_tail,
                            data |-> @.data \o cells,
                            records |-> Append(@.records, rec)]]
            /\ UNCHANGED <<kernelVars, counter, ecVars, samplerVars, samples, read_extent, groupVars>>

NextRecords == KernelWriteRecord \/ DoResult \/ DoSamplerStop

SpecRecords == InitRecords /\ [][NextRecords]_vars

(***************************************************************************)
(* SpecWalk: an opened Sampler with one trigger group and a ring buffer    *)
(* that holds any short sequence of records of any type; the owner calls   *)
(* result().                                                               *)
(***************************************************************************)
\* The most records of the buffer.
MaxBufferRecords == 2

\* The cpu-mode values of a header's misc field tried (0 is
\* PERF_RECORD_MISC_CPUMODE_UNKNOWN).
CpuModes ==
    {0, PERF_RECORD_MISC_KERNEL, PERF_RECORD_MISC_USER, PERF_RECORD_MISC_HYPERVISOR,
     PERF_RECORD_MISC_GUEST_KERNEL, PERF_RECORD_MISC_GUEST_USER}

RecordTypes ==
    {PERF_RECORD_SAMPLE, PERF_RECORD_LOST, PERF_RECORD_SWITCH, PERF_RECORD_SWITCH_CPU_WIDE,
     PERF_RECORD_CGROUP, PERF_RECORD_THROTTLE, PERF_RECORD_UNTHROTTLE, PERF_RECORD_COMM}

\* The cells between the header of a record and its sample fields
\* (struct layouts of linux/perf_event.h): LOST {id, lost}, SWITCH_CPU_WIDE
\* {next_prev_pid, next_prev_tid}, CGROUP {id, path}, THROTTLE and
\* UNTHROTTLE {time, id, stream_id}, COMM {pid, tid, comm}.
RecordBody(type, t, g) ==
    CASE type = PERF_RECORD_LOST -> U64Cells(<<g.members[1].id, 3>>)
      [] type = PERF_RECORD_SWITCH_CPU_WIDE -> <<7, 8>>
      [] type = PERF_RECORD_CGROUP -> U64Cells(<<9>>) \o <<47, 0>>
      [] type \in {PERF_RECORD_THROTTLE, PERF_RECORD_UNTHROTTLE} ->
            U64Cells(<<t, g.members[1].id, g.members[1].id>>)
      [] type = PERF_RECORD_COMM -> <<7, 8, 99, 0>>
      [] OTHER -> <<>>

\* The record of a type the kernel writes at time t with the cpu mode m.
RecordOfType(type, t, g, m, vals) ==
    [type |-> type, misc |-> m, pad |-> 0,
     fields |-> [f \in vals.sample_type |-> KernelFieldContent(f, t, g, "user", vals)],
     body |-> RecordBody(type, t, g)]

\* The data area that holds the records from the k-th on.
RECURSIVE CellsOfRecords(_, _)
CellsOfRecords(recs, k) ==
    IF k > Len(recs) THEN <<>>
    ELSE KernelRecordCells(recs[k].type, recs[k].misc,
                           recs[k].body \o KernelPayload(recs[k].fields, 1))
         \o CellsOfRecords(recs, k + 1)

\* The sample configurations tried: the time, with and without the
\* throttle records.
WalkValues ==
    {[NewValues EXCEPT !.sample_type = {"TIME"}, !.is_include_throttle = t] : t \in BOOLEAN}

InitWalk ==
    /\ NoCounter
    /\ NoGroup
    /\ NoEventCounter
    /\ values \in WalkValues
    /\ \E s \in {OpenedSampler(1, values)} :
          /\ triggers = <<<<"cycles">>>>
          /\ is_opened = s.is_opened
          /\ sample_counter = s.sample_counter
          /\ kernel_fds = s.fds
          /\ kernel_maps = s.maps
          /\ calls = s.log
          /\ outcome = [op |-> "open", result |-> Failure(s.error, s.errno)]
          /\ read_extent = <<0>>
          /\ \E n \in 0..MaxBufferRecords, m \in CpuModes :
                \E types \in [1..n -> RecordTypes] :
                    \E recs \in {[k \in 1..n |->
                                     RecordOfType(types[k], k, s.sample_counter[1].group, m, values)]} :
                        /\ kernel_clock = n
                        /\ ring = [a \in s.maps |->
                                      [data_head |-> 4 * Len(CellsOfRecords(recs, 1)),
                                       data_tail |-> 0,
                                       data |-> CellsOfRecords(recs, 1),
                                       records |-> recs]]
    /\ samples = [sort_by_time |-> FALSE, list |-> <<>>, at |-> 0]

NextWalk == DoResult

SpecWalk == InitWalk /\ [][NextWalk]_vars

(***************************************************************************)
(* SpecWrap: an opened Sampler with one trigger group and a small data     *)
(* area. The buffer is mapped PROT_READ, so the kernel never waits for the *)
(* reader: it writes record after record, wraps at the end of the data     *)
(* area and overwrites the oldest bytes; data_head counts all bytes ever   *)
(* written.                                                                *)
(***************************************************************************)
\* The cells of the data area ((buffer_pages - 1) x 4096 bytes in the code).
DataAreaCells == 8
\* The most records the kernel writes.
MaxWritten == 3

InitWrap ==
    /\ NoCounter
    /\ NoGroup
    /\ NoEventCounter
    /\ values = [NewValues EXCEPT !.sample_type = {"TIME"}]
    /\ \E s \in {OpenedSampler(1, values)} :
          /\ triggers = <<<<"cycles">>>>
          /\ is_opened = s.is_opened
          /\ sample_counter = s.sample_counter
          /\ kernel_fds = s.fds
          /\ kernel_maps = s.maps
          /\ calls = s.log
          /\ outcome = [op |-> "open", result |-> Failure(s.error, s.errno)]
          /\ ring = [a \in s.maps |->
                        [data_head |-> 0, data_tail |-> 0,
                         data |-> [k \in 1..DataAreaCells |-> 0],
                         records |-> <<>>, size |-> 4 * DataAreaCells]]
          /\ read_extent = <<0>>
    /\ kernel_clock = 0
    /\ samples = [sort_by_time |-> FALSE, list |-> <<>>, at |-> 0]

\* The data area after the kernel has written cells from the cell at on,
\* wrapping at the end of the area.
WriteWrapping(data, at, cells) ==
    [k \in 1..Len(data) |->
        IF (k - 1 - at) % Len(data) < Len(cells)
        THEN cells[((k - 1 - at) % Len(data)) + 1]
        ELSE data[k]]

\* The kernel writes a sample, in user code or in a kernel thread, with or
\* without a field behind those the decoder knows, at data_head modulo the
\* size of the data area.
KernelWriteWrapping ==
    \E ctx \in SampleContexts, pad \in {0, 2} :
        \E rec \in {Padded(KernelSample(kernel_clock + 1, sample_counter[1].group, ctx, values),
                            pad)} :
            \E cells \in {KernelRecordCells(rec.type, rec.misc,
                                            KernelPayload(rec.fields, 1) \o [k \in 1..rec.pad |-> 0])} :
                /\ kernel_clock < MaxWritten
                /\ sample_counter[1].buffer \in DOMAIN ring
                /\ kernel_clock' = kernel_clock + 1
                /\ ring' = [ring EXCEPT ![sample_counter[1].buffer] =
                               [data_head |-> @.data_head + 4 * Len(cells),
                                data_tail |-> @.data_tail,
                                data |-> WriteWrapping(@.data, (@.data_head \div 4) % DataAreaCells,
                                                       cells),
                                records |-> Append(@.records, rec),
                                size |-> @.size]]
                /\ UNCHANGED <<kernelVars, counter, ecVars, samplerVars, samples, read_extent, groupVars>>

NextWrap == KernelWriteWrapping \/ DoResult

SpecWrap == InitWrap /\ [][NextWrap]_vars

(***************************************************************************)
(* Claims about Counter, checked under SpecCounter.                        *)
(***************************************************************************)
\* The perf_event_open attempts of the last call, in order.
OpenAttempts == SelectSeq(calls, LAMBDA c : c.call = "perf_event_open")

LastOpenAttempt == OpenAttempts[Len(OpenAttempts)]

IsOpenOp == outcome.op \in {"open_counting", "open_sampling"}

\* C8: in sampling mode Counter::open with requested precision p tries
\* precise_ip = p, p-1, ... in strictly decreasing order, goes on only after a
\* failure with EINVAL or EOPNOTSUPP, and stops at the first success, at the
\* first failure with another errno, or after the attempt with 0; after a
\* successful open the effective precise_ip is the last one tried, <= p.
C8_PrecisionFallback ==
    outcome.op = "open_sampling" =>
        /\ Len(OpenAttempts) >= 1
        /\ \A i \in 1..Len(OpenAttempts) :
              /\ OpenAttempts[i].precise_ip = counter.precise_ip - (i - 1)
              /\ i < Len(OpenAttempts) =>
                    /\ OpenAttempts[i].ret = -1
                    /\ OpenAttempts[i].errno \in RetryErrnos
        /\ \/ LastOpenAttempt.ret > -1
           \/ LastOpenAttempt.errno \notin RetryErrnos
           \/ LastOpenAttempt.precise_ip = 0
        /\ counter.attr_precise_ip = LastOpenAttempt.precise_ip
        /\ counter.attr_precise_ip <= counter.precise_ip
        /\ outcome.result.error = "none" => counter.fd = LastOpenAttempt.ret /\ counter.fd > -1

\* C8 witness: an open that succeeded after falling back twice.
C8_Witness ==
    /\ outcome.op = "open_sampling"
    /\ outcome.result.error = "none"
    /\ Len(OpenAttempts) = 3
    /\ counter.attr_precise_ip = counter.precise_ip - 2
    /\ OpenAttempts[1].errno = "EINVAL"
    /\ OpenAttempts[2].errno = "EOPNOTSUPP"

\* C9: when the last perf_event_open attempt of Counter::open fails, open
\* fails with OpenFailure carrying that attempt's errno and leaves the
\* descriptor negative; a close() that follows makes no kernel call.
C9_OpenFailure ==
    /\ [](outcome.op = "open_counting" => Len(OpenAttempts) = 1)
    /\ [](IsOpenOp /\ LastOpenAttempt.ret = -1 =>
            /\ outcome.result.error = "OpenFailure"
            /\ outcome.result.errno = LastOpenAttempt.errno
            /\ counter.fd < 0)
    /\ [][IsOpenOp /\ outcome.result.error = "OpenFailure" /\ outcome'.op = "close" =>
            /\ calls' = <<>>
            /\ kernel_fds' = kernel_fds]_vars

\* C9 witness: a sampling open whose fallback ended in a failure with an
\* errno that is not retried.
C9_Witness ==
    /\ outcome.op = "open_sampling"
    /\ outcome.result.error = "OpenFailure"
    /\ outcome.result.errno = "EACCES"
    /\ Len(OpenAttempts) = 2
    /\ counter.fd = -1

\* C10: after close() the stored descriptor is -1 and the descriptor it held
\* is closed in the kernel by exactly one close(2); a close() on a counter
\* whose descriptor is -1 makes no kernel call and changes nothing.
C10_CloseIdempotent ==
    /\ [](outcome.op = "close" => counter.fd = -1 /\ Len(calls) <= 1)
    /\ [][outcome'.op = "close" =>
            IF counter.fd > -1
            THEN /\ calls' = <<[call |-> "close", fd |-> counter.fd]>>
                 /\ kernel_fds' = kernel_fds \ {counter.fd}
                 /\ counter'.fd = -1
            ELSE /\ calls' = <<>>
                 /\ kernel_fds' = kernel_fds
                 /\ counter' = counter]_vars

\* C10 witness: a close() that found the descriptor already at -1 after an
\* earlier close() of an opened counter.
C10_Witness ==
    /\ outcome.op = "close"
    /\ calls = <<>>
    /\ counter.fd = -1
    /\ counter.id # 0

(***************************************************************************)
(* Claims about EventCounter, checked under Spec.                          *)
(***************************************************************************)
\* The descriptors the last library call got from perf_event_open.
DescriptorsOpenedByLastCall ==
    {calls[i].ret : i \in {k \in 1..Len(calls) :
                             calls[k].call = "perf_event_open" /\ calls[k].ret > -1}}

\* C1: when EventCounter::start fails because a counter cannot be opened,
\* every descriptor opened earlier in that start call is closed when the error
\* reaches the caller.
C1_FailedStartLeavesNoDescriptor ==
    outcome.op = "start" /\ outcome.result.error = "OpenFailure" =>
        DescriptorsOpenedByLastCall \cap kernel_fds = {}

(***************************************************************************)
(* Claims about Sampler::open / start, checked under SpecSampler.          *)
(***************************************************************************)
\* C6: every start or open of a sampler without trigger groups fails with
\* NoTriggers, a call that follows an earlier failed one included.
C6_NoTriggersEveryCall ==
    outcome.op \in {"open", "start"} /\ triggers = <<>> =>
        outcome.result.error = "NoTriggers"

\* The mappings the last library call got from mmap.
MappingsMadeByLastCall ==
    {calls[i].ret : i \in {k \in 1..Len(calls) : calls[k].call = "mmap" /\ calls[k].ret > 0}}

\* C7: when Sampler::open fails on a counter or on a buffer, the descriptors
\* it opened and the buffers it mapped in that call are closed and unmapped
\* when the error reaches the caller.
C7_FailedOpenReleasesEverything ==
    /\ outcome.op \in {"open", "start"}
    /\ outcome.result.error \in {"OpenFailure", "BufferAllocationFailure"}
    => /\ DescriptorsOpenedByLastCall \cap kernel_fds = {}
       /\ MappingsMadeByLastCall \cap kernel_maps = {}

(***************************************************************************)
(* Claims about Sampler::result, checked under SpecDecode.                 *)
(***************************************************************************)
\* The last call was result() and the kernel has written nothing since.
ResultIsFresh == outcome.op = "result" /\ samples.at = kernel_clock

\* The page of the i-th sample counter's buffer.
PageOf(i) == ring[sample_counter[i].buffer]

\* C2: while walking a ring buffer, result() reads no byte of a record header
\* or record field at an offset at or beyond the buffer's data_head.
C2_NoReadBeyondDataHead ==
    ResultIsFresh =>
        \A i \in 1..Len(sample_counter) :
            sample_counter[i].buffer # 0 => read_extent[i] <= PageOf(i).data_head

\* The decoded records of the buffers from the i-th on, buffer after buffer,
\* each buffer's records in the order written.
RECURSIVE DecodedRecordsFrom(_)
DecodedRecordsFrom(i) ==
    IF i > Len(sample_counter) THEN <<>>
    ELSE IF sample_counter[i].buffer = 0 THEN DecodedRecordsFrom(i + 1)
    ELSE WalkBuffer([pos |-> 0, count |-> 0, list |-> <<>>, extent |-> 0, hangs |-> FALSE],
                    i, PageOf(i).data, PageOf(i).data_head, values, sample_counter[i]).list
             \o DecodedRecordsFrom(i + 1)

\* C3: result(sort_by_time = false) returns the concatenation, in trigger
\* group order, of the decoded records of every mapped buffer; an empty
\* buffer contributes nothing and cuts off no other buffer's records.
C3_ConcatenationOfAllBuffers ==
    ResultIsFresh /\ ~samples.sort_by_time => samples.list = DecodedRecordsFrom(1)

\* C4: with the TIME bit configured and sort_by_time = true, the returned
\* vector is ordered by non-decreasing timestamp across all buffers, empty
\* buffers among them or not.
C4_SortedAcrossBuffers ==
    ResultIsFresh /\ samples.sort_by_time /\ "TIME" \in values.sample_type =>
        IsSortedByTime(samples.list)

\* What a decoded field holds when it holds the bytes the record carries for
\* it; v is the content the kernel wrote (see KernelFieldCells).
CarriedCells(f, v) ==
    CASE f \in {"TID", "RAW", "WEIGHT_STRUCT"} -> v
      [] f \in {"CPU", "WEIGHT"} -> <<v[1]>>
      [] f = "READ" -> [j \in 1..((Len(v) - 2) \div 2) |-> Corrected(v[2 * j + 1], v[1], v[2])]
      [] OTHER -> U64Cells(v)

\* C5: read_sample_event consumes the fields in the kernel's order, skipping
\* those whose bit is not set, so every decoded field of a SAMPLE record holds
\* the bytes the record carries for that field.
C5_FieldsHoldWhatTheRecordCarries ==
    outcome.op = "result" =>
        \A k \in 1..Len(samples.list) :
            \E rec \in {PageOf(samples.list[k].origin[1]).records[samples.list[k].origin[2]]} :
                rec.type = PERF_RECORD_SAMPLE =>
                    \A f \in values.sample_type :
                        samples.list[k].fields[f] = CarriedCells(f, rec.fields[f])

(***************************************************************************)
(* Claims about Group, checked under SpecGroup.                            *)
(***************************************************************************)
\* The names of the system calls of a log, in order.
CallNames(log) == [i \in 1..Len(log) |-> log[i].call]

\* C11: for a non-empty group, a start() followed by a stop() issues on the
\* leader's descriptor, in this order, RESET, ENABLE, the read of start_value,
\* the read of end_value, DISABLE, and nothing else.
C11_StartStopOrder ==
    [][(outcome.op = "group_start" /\ outcome'.op = "group_stop" /\ group.members # <<>>) =>
          /\ CallNames(calls \o calls') =
                 <<"ioctl_reset", "ioctl_enable", "read", "read", "ioctl_disable">>
          /\ \A i \in 1..Len(calls \o calls') : (calls \o calls')[i].fd = GroupLeaderFd(group)]_vars

\* C11 witness: a stop() of an opened group whose start() had read start_value:
\* the read of end_value on the live leader, then the DISABLE.
C11_Witness ==
    /\ outcome.op = "group_stop"
    /\ group.members # <<>>
    /\ GroupLeaderFd(group) \in kernel_fds
    /\ group.start_value.count_members > 0
    /\ CallNames(calls) = <<"read", "ioctl_disable">>
    /\ calls[1].ret > 0

(***************************************************************************)
(* Claims about EventCounter::start and its group reads, checked under     *)
(* Spec.                                                                   *)
(***************************************************************************)
\* The results of the read(2) calls of the last library call.
ReadResults == {calls[i].ret : i \in {k \in 1..Len(calls) : calls[k].call = "read"}}

\* C12: when a leader read made by start returns 0 or fewer bytes, start
\* fails with StartFailure and the caller of EventCounter::start sees it.
C12_StartReadFailureSurfaces ==
    outcome.op = "start" /\ (\E ret \in ReadResults : ret <= 0) =>
        outcome.result.error = "StartFailure"

(***************************************************************************)
(* Claims about Group::start, stop and get, checked under SpecGroup.       *)
(***************************************************************************)
\* C13: start() and stop() of a group without members both fail with
\* EmptyGroup and make no ioctl and no read.
C13_EmptyGroupFails ==
    outcome.op \in {"group_start", "group_stop"} /\ group.members = <<>> =>
        outcome.result.error = "EmptyGroup" /\ calls = <<>>

\* C14: when time_running did not advance between the two snapshots, get()
\* returns 0 for every member.
C14_ZeroRunningTimeGivesZero ==
    (/\ outcome.op = "group_get"
     /\ group.end_value.time_running = group.start_value.time_running) =>
        \A i \in 1..Len(got) : got[i] = DZero

\* max(0, end - start) as a number, before the correction is applied.
ClampedDifference(start, end) == IF end < start THEN DZero ELSE DFinite(end - start, 1, 0)

\* C15: for a member whose id is in both snapshots, get() returns
\* max(0, end - start) times the correction, which is 0 when end < start
\* (stated for the corrections that are numbers).
C15_GetIsClampedDifference ==
    outcome.op = "group_get" /\ group.multiplexing_correction.kind = "finite" =>
        \A i \in 1..Len(group.members) :
            \E s \in {ValueForId(group.start_value, group.members[i].id)} :
                \E e \in {ValueForId(group.end_value, group.members[i].id)} :
                    (s # <<>> /\ e # <<>>) =>
                        got[i] = DMul(ClampedDifference(s[1], e[1]), group.multiplexing_correction)

(***************************************************************************)
(* Claims about the size of groups, checked under SpecSampler.             *)
(***************************************************************************)
\* C16: every group built holds at most MAX_MEMBERS counters; here the
\* groups the sampler builds from its trigger groups and the counters
\* recorded with a sample.
C16_GroupsHoldAtMostMaxMembers ==
    \A i \in 1..Len(sample_counter) : Len(sample_counter[i].group.members) <= MAX_MEMBERS

(***************************************************************************)
(* Claims about EventCounter::add, checked under SpecAdd.                  *)
(***************************************************************************)
\* The last group is full and no further group may be added.
NoRoomForCounter ==
    /\ Len(groups) = config.max_groups
    /\ Len(groups[Len(groups)].members) >= config.max_counters_per_group

\* The events that are counters.
CounterEvents == {i \in 1..Len(events) : events[i].is_counter}

\* C17: the add of a counter fails with TooManyCounters only when max_groups
\* groups exist and the last one is full; there are never more than
\* max_groups groups nor more than max_counters_per_group counters in a
\* group; and when the groups were filled without a group break, the add
\* that fails is the one after max_counters_per_group x max_groups counters.
C17_CapacityOfAdd ==
    /\ Len(groups) <= config.max_groups
    /\ \A g \in 1..Len(groups) : Len(groups[g].members) <= config.max_counters_per_group
    /\ (outcome.op = "add" /\ outcome.name \in CounterNames
            /\ outcome.result.error = "TooManyCounters") =>
           /\ NoRoomForCounter
           /\ (\A g \in 1..Len(groups) :
                   Len(groups[g].members) >= config.max_counters_per_group) =>
                  Cardinality(CounterEvents) = config.max_counters_per_group * config.max_groups

\* The sizes of the groups, in order.
GroupSizes(gs) == [g \in 1..Len(gs) |-> Len(gs[g].members)]

\* The names of the events, in order.
EventNames(es) == [i \in 1..Len(es) |-> es[i].name]

\* The last group exists and has a member.
LastGroupHasMembers == groups # <<>> /\ groups[Len(groups)].members # <<>>

\* C18: add("") changes nothing when there is no group or the last group is
\* empty, appends one empty group when the last group has members and fewer
\* than max_groups groups exist, and fails with TooManyGroups otherwise; no
\* two empty groups follow each other; a counter added after a break is put
\* into none of the groups that existed before the break; and cycles, "",
\* cache-misses gives two groups of one counter each (under a Config with
\* room for them).
C18_GroupBreak ==
    /\ [](\A g \in 1..(Len(groups) - 1) :
             ~(groups[g].members = <<>> /\ groups[g + 1].members = <<>>))
    /\ [][/\ (outcome'.op = "add" /\ outcome'.name = "") =>
                IF ~LastGroupHasMembers
                THEN /\ outcome'.result.error = "none"
                     /\ UNCHANGED <<events, groups>>
                ELSE IF Len(groups) < config.max_groups
                THEN /\ outcome'.result.error = "none"
                     /\ groups' = Append(groups, NewGroup)
                     /\ UNCHANGED events
                ELSE /\ outcome'.result.error = "TooManyGroups"
                     /\ UNCHANGED <<events, groups>>
          /\ (/\ outcome'.op = "add" /\ outcome'.name \in CounterNames
              /\ outcome'.result.error = "none"
              /\ Len(groups) >= 2 /\ ~LastGroupHasMembers
              /\ outcome'.name \notin {events[i].name : i \in 1..Len(events)}) =>
                /\ \A g \in 1..(Len(groups) - 1) : groups'[g] = groups[g]
                /\ events'[Len(events')].name = outcome'.name
                /\ events'[Len(events')].group_id >= Len(groups) - 1
          /\ (/\ outcome'.op = "add" /\ outcome'.name = "cache-misses"
              /\ EventNames(events) = <<"cycles">> /\ GroupSizes(groups) = <<1, 0>>
              /\ config.max_counters_per_group >= 1) =>
                /\ EventNames(events') = <<"cycles", "cache-misses">>
                /\ GroupSizes(groups') = <<1, 1>>]_vars

\* C18 witness: cache-misses added after cycles and a group break.
C18_Witness ==
    /\ outcome.op = "add"
    /\ outcome.name = "cache-misses"
    /\ outcome.result.error = "none"
    /\ EventNames(events) = <<"cycles", "cache-misses">>
    /\ GroupSizes(groups) = <<1, 1>>
    /\ events[2].group_id = 1

\* The positions of the events with a name.
EventsNamed(es, name) == {i \in 1..Len(es) : es[i].name = name}

\* C19: the add of a counter name that is in the event list adds no event
\* and no group slot and leaves the event hidden only if it was hidden and
\* the new add is a hidden one: an add by the user un-hides it, and no add
\* (of a metric that requires it, or any other) hides a visible counter.
C19_AddOfPresentCounter ==
    [][/\ (/\ outcome'.op = "add" /\ outcome'.name \in CounterNames
           /\ EventsNamed(events, outcome'.name) # {}) =>
             /\ outcome'.result.error = "none"
             /\ groups' = groups
             /\ events' = [events EXCEPT
                              ![SetMin(EventsNamed(events, outcome'.name))].is_hidden = FALSE]
       /\ outcome'.op = "add" =>
             /\ Len(events') >= Len(events)
             /\ \A i \in 1..Len(events) :
                    /\ events'[i].name = events[i].name
                    /\ events'[i].is_counter = events[i].is_counter
                    /\ events'[i].group_id = events[i].group_id
                    /\ events'[i].in_group_id = events[i].in_group_id
                    /\ events'[i].is_hidden => events[i].is_hidden
                    /\ outcome'.name \in MetricNames => events'[i].is_hidden = events[i].is_hidden]_vars

\* C19 witness: cycles added by the user after ipc had pulled in instructions
\* and cycles as hidden counters: cycles is visible, at its old place.
C19_Witness ==
    /\ outcome.op = "add"
    /\ outcome.name = "cycles"
    /\ EventNames(events) = <<"instructions", "cycles", "ipc">>
    /\ events[1].is_hidden
    /\ ~events[2].is_hidden
    /\ Len(groups[1].members) + (IF Len(groups) > 1 THEN Len(groups[2].members) ELSE 0) = 2

\* The names of the entries of a counter result, in order.
ResultNames(es, gs) == EventNames(ECResult(es, gs, 1))

\* C20: the names of result() are the names the user added, in the order of
\* the adds: an add that succeeds leaves the names of result() as they were
\* or puts the added name after them.
C20_ResultInUserOrder ==
    [][(outcome'.op = "add" /\ outcome'.result.error = "none") =>
          \/ ResultNames(events', groups') = ResultNames(events, groups)
          \/ ResultNames(events', groups') = Append(ResultNames(events, groups), outcome'.name)]_vars

(***************************************************************************)
(* C21: counters pulled in by a metric.                                    *)
(***************************************************************************)
HiddenCounters == {i \in CounterEvents : events[i].is_hidden}

MetricEvents == {i \in 1..Len(events) : ~events[i].is_counter}

\* The names of the metric events, in the order of the event list.
RECURSIVE MetricNamesFrom(_, _)
MetricNamesFrom(es, k) ==
    IF k > Len(es) THEN <<>>
    ELSE (IF es[k].is_counter THEN <<>> ELSE <<es[k].name>>) \o MetricNamesFrom(es, k + 1)

\* C21: every hidden counter (required by a metric, never added by the user)
\* is a member of a group, at the slot its event names, and is absent from
\* what result() returned; when every counter is hidden the result holds the
\* metric entries and nothing else, one ipc entry after add("ipc").
C21_HiddenCountersNotInResult ==
    /\ \A i \in HiddenCounters :
          /\ events[i].group_id + 1 \in 1..Len(groups)
          /\ events[i].in_group_id + 1 \in 1..Len(groups[events[i].group_id + 1].members)
    /\ outcome.op = "counter_result" =>
          /\ \A i \in HiddenCounters : \A k \in 1..Len(got) : got[k].name # events[i].name
          /\ (MetricEvents # {} /\ CounterEvents = HiddenCounters) =>
                EventNames(got) = MetricNamesFrom(events, 1)
          /\ (EventNames(events) = <<"instructions", "cycles", "ipc">> /\ HiddenCounters = {1, 2}) =>
                EventNames(got) = <<"ipc">>

C21_Witness ==
    /\ outcome.op = "counter_result"
    /\ EventNames(events) = <<"instructions", "cycles", "ipc">>
    /\ HiddenCounters = {1, 2}
    /\ Len(groups) = 1 /\ Len(groups[1].members) = 2
    /\ EventNames(got) = <<"ipc">>

(***************************************************************************)
(* C22: EventCounter::stop.                                                *)
(***************************************************************************)
NonEmptyGroups == {g \in 1..Len(groups) : groups[g].members # <<>>}

RECURSIVE SumOfMembers(_, _, _)
SumOfMembers(trigs, vals, i) ==
    IF i > Len(trigs) THEN 0 ELSE MembersOf(trigs[i], vals) + SumOfMembers(trigs, vals, i + 1)

\* The descriptors the members of the sample counters hold.
SamplerDescriptors ==
    {sample_counter[i].group.members[j].fd :
        <<i, j>> \in {x \in (1..Len(sample_counter)) \X (1..(MAX_MEMBERS + 1)) :
                        /\ x[2] <= Len(sample_counter[x[1]].group.members)
                        /\ sample_counter[x[1]].group.members[x[2]].fd > -1}}

\* The mappings the sample counters hold.
SamplerBuffers ==
    {sample_counter[i].buffer : i \in {k \in 1..Len(sample_counter) : sample_counter[k].buffer # 0}}

\* C23: after close() the sampler is not opened and holds no sample counter,
\* and no descriptor and no mapping is left in the kernel; a close() of a
\* sampler that is not opened makes no call and changes nothing; an open()
\* of a sampler that is not opened ends, when it succeeds, with one sample
\* counter per trigger group, each mapped and with every member opened, and
\* the kernel holds these descriptors and mappings and no other, however many
\* open and close calls came before.
C23_CloseReleasesOpenRebuilds ==
    /\ [](outcome.op = "close" =>
             /\ ~is_opened /\ sample_counter = <<>>
             /\ kernel_fds = {} /\ kernel_maps = {})
    /\ [](/\ Len(sample_counter) <= Len(triggers)
          /\ kernel_fds = SamplerDescriptors
          /\ kernel_maps = SamplerBuffers)
    /\ [][outcome'.op = "close" /\ ~is_opened =>
             /\ calls' = <<>>
             /\ UNCHANGED <<kernel_fds, kernel_maps, is_opened, sample_counter>>]_vars
    /\ [][outcome'.op = "open" /\ ~is_opened /\ outcome'.result.error = "none" =>
             /\ is_opened'
             /\ Len(sample_counter') = Len(triggers)
             /\ Cardinality(kernel_fds') = SumOfMembers(triggers, values, 1)
             /\ Cardinality(kernel_maps') = Len(triggers)]_vars

\* A close() that unmapped the buffers and closed the descriptors of two
\* trigger groups.
C23_Witness ==
    /\ outcome.op = "close"
    /\ Len(triggers) = 2
    /\ Cardinality({k \in 1..Len(calls) : calls[k].call = "munmap"}) = 2
    /\ Cardinality({k \in 1..Len(calls) : calls[k].call = "close"}) = 2
    /\ kernel_fds = {} /\ kernel_maps = {}

\* C24: an open() or start() of a sampler that is already opened opens no
\* descriptor, maps no buffer and adds no sample counter; open() makes no
\* system call at all and start() makes the RESET and ENABLE of every
\* existing group, on its leader's descriptor, and no other call.
C24_OpenedSamplerIsNotOpenedAgain ==
    [][outcome'.op \in {"open", "start"} /\ is_opened =>
          /\ UNCHANGED <<kernel_fds, kernel_maps, sample_counter, is_opened>>
          /\ outcome'.result.error = "none"
          /\ IF outcome'.op = "open" THEN calls' = <<>>
             ELSE /\ Len(calls') = 2 * Len(sample_counter)
                  /\ \A i \in 1..Len(sample_counter) :
                        /\ calls'[2 * i - 1] =
                               [call |-> "ioctl_reset", fd |-> GroupLeaderFd(sample_counter[i].group)]
                        /\ calls'[2 * i] =
                               [call |-> "ioctl_enable", fd |-> GroupLeaderFd(sample_counter[i].group)]]_vars

\* A start() of an opened sampler with two trigger groups: four ioctls and
\* nothing else.
C24_Witness ==
    /\ outcome.op = "start"
    /\ is_opened
    /\ Len(sample_counter) = 2
    /\ Len(calls) = 4
    /\ \A k \in 1..Len(calls) : calls[k].call \in {"ioctl_reset", "ioctl_enable"}
    /\ Cardinality(kernel_fds) = 2 /\ Cardinality(kernel_maps) = 2

\* The last call opened descriptors: an open() or start() of a sampler that
\* was not opened.
SamplerJustOpened ==
    /\ outcome.op \in {"open", "start"}
    /\ \E k \in 1..Len(calls) : calls[k].call = "perf_event_open"

\* The group descriptor of the perf_event_open that returned fd in the last call.
GroupFdGivenFor(fd) ==
    {calls[k].group_fd : k \in {n \in 1..Len(calls) :
                                  calls[n].call = "perf_event_open" /\ calls[n].ret = fd}}

\* The members of g, other than the leader, that were opened as a sampling
\* source.
SecretLeaders(g) == {j \in 2..Len(g.members) : g.members[j].attr_sampling}

\* C25: in every trigger group that open() opened and mapped, the second
\* member is the secret leader and holds the mapped descriptor when the
\* first member is auxiliary and the group has more than one member;
\* otherwise there is no secret leader and the leader's descriptor is the
\* mapped one. Every other member was opened with the leader's descriptor
\* as group descriptor, the leader with -1.
C25_SecretLeader ==
    SamplerJustOpened =>
        \A i \in 1..Len(sample_counter) :
            LET g == sample_counter[i].group
            IN  /\ sample_counter[i].buffer # 0 =>
                      IF g.members[1].is_auxiliary /\ Len(g.members) > 1
                      THEN /\ SecretLeaders(g) = {2}
                           /\ sample_counter[i].buffer = MapAddress(g.members[2].fd)
                      ELSE /\ SecretLeaders(g) = {}
                           /\ sample_counter[i].buffer = MapAddress(g.members[1].fd)
                /\ \A j \in 1..Len(g.members) :
                      g.members[j].fd > -1 =>
                          GroupFdGivenFor(g.members[j].fd) =
                              {IF j = 1 THEN -1 ELSE g.members[1].fd}

\* An open() of a group of an auxiliary leader, a trigger and a recorded
\* counter: the buffer is mapped on the second member.
C25_Witness ==
    /\ SamplerJustOpened
    /\ outcome.result.error = "none"
    /\ Len(sample_counter) = 1
    /\ Len(sample_counter[1].group.members) = 3
    /\ sample_counter[1].group.members[1].is_auxiliary
    /\ sample_counter[1].buffer = MapAddress(sample_counter[1].group.members[2].fd)
    /\ sample_counter[1].group.members[2].fd # sample_counter[1].group.members[1].fd

\* The names of the trigger groups of one trigger call, in the order the
\* call looks at them.
RECURSIVE TriggerNames(_)
TriggerNames(input) == IF input = <<>> THEN <<>> ELSE Head(input) \o TriggerNames(Tail(input))

\* The names of a trigger call that are not counters of the catalogue.
Rejected(names) == {k \in 1..Len(names) : names[k] \notin SamplerCounterNames}

\* The trigger groups of a call that stand before its first group with a
\* name that is not a counter.
RECURSIVE GroupsBeforeRejected(_)
GroupsBeforeRejected(input) ==
    IF input = <<>> \/ Rejected(Head(input)) # {} THEN <<>>
    ELSE <<Head(input)>> \o GroupsBeforeRejected(Tail(input))

\* C29: a trigger call fails when one of its names is not a counter of the
\* catalogue, with MetricAsTrigger when the first such name is a metric and
\* with the error of an unknown counter when the catalogue does not know it;
\* it succeeds otherwise. No trigger group with such a name is ever among
\* the installed ones: a call installs its groups up to the first rejected.
C29_TriggerRejectsMetricsAndUnknown ==
    /\ [](\A i \in 1..Len(triggers) : Rejected(triggers[i]) = {})
    /\ [](outcome.op = "trigger" =>
             LET names == TriggerNames(outcome.input)
             IN  IF Rejected(names) = {} THEN outcome.result.error = "none"
                 ELSE IF names[SetMin(Rejected(names))] \in MetricNames
                 THEN outcome.result.error = "MetricAsTrigger"
                 ELSE outcome.result.error = "UnknownCounter")
    /\ [][outcome'.op = "trigger" =>
             triggers' = triggers \o GroupsBeforeRejected(outcome'.input)]_vars

\* A trigger call whose second group names a metric: the call fails and
\* only its first group is installed.
C29_Witness ==
    /\ outcome.op = "trigger"
    /\ outcome.input = <<<<"cycles">>, <<"ipc">>>>
    /\ outcome.result.error = "MetricAsTrigger"
    /\ triggers = <<<<"cycles">>>>

\* C30: every member of a trigger group that Counter::open opened (in
\* sampling mode: Sampler::open passes the sample-type mask for every
\* member), the leader, the secret leader and the others alike, has
\* sample_id_all set in its attribute block and the freq bit equal to
\* whether its cadence is a frequency.
C30_SamplingAttributesOfEveryMember ==
    \A i \in 1..Len(sample_counter) :
        \A j \in 1..Len(sample_counter[i].group.members) :
            LET member == sample_counter[i].group.members[j]
            IN  member.fd > -1 =>
                    /\ member.attr_sample_id_all
                    /\ member.attr_freq = member.is_frequency

(***************************************************************************)
(* C26..C28: the walk over the ring buffer and the decoding of a record    *)
(* (SpecRecords).                                                          *)
(***************************************************************************)
\* The record the k-th returned sample was decoded from.
RecordOfSample(k) ==
    PageOf(samples.list[k].origin[1]).records[samples.list[k].origin[2]]

\* The cpu-mode value of a misc field (PERF_RECORD_MISC_CPUMODE_MASK) and
\* the Mode that linux/perf_event.h gives it.
CpuModeOf(misc) == misc % 8
ModeOfCpuMode(cpumode) ==
    CASE cpumode = PERF_RECORD_MISC_KERNEL -> "Kernel"
      [] cpumode = PERF_RECORD_MISC_USER -> "User"
      [] cpumode = PERF_RECORD_MISC_HYPERVISOR -> "Hypervisor"
      [] cpumode = PERF_RECORD_MISC_GUEST_KERNEL -> "GuestKernel"
      [] cpumode = PERF_RECORD_MISC_GUEST_USER -> "GuestUser"
      [] OTHER -> "Unknown"

\* C28: the Mode of a decoded record is the one of the cpu-mode value in the
\* header's misc field: KERNEL gives Kernel, USER gives User, HYPERVISOR
\* gives Hypervisor, GUEST_KERNEL gives GuestKernel, GUEST_USER gives
\* GuestUser and any other value gives Unknown.
C28_ModeIsTheCpuModeOfMisc ==
    outcome.op = "result" =>
        \A k \in 1..Len(samples.list) :
            samples.list[k].mode = ModeOfCpuMode(CpuModeOf(RecordOfSample(k).misc))

\* The records of the buffer that result() has a decoder for (here: the
\* SAMPLE records), by their position in the buffer.
RecognisedRecords ==
    {c \in 1..Len(PageOf(1).records) : PageOf(1).records[c].type = PERF_RECORD_SAMPLE}

\* C26: the walk reads the header of the next record at the position of the
\* record plus the size its header advertises, whatever the record's type
\* and however many bytes its decoder consumed: result() returns, every
\* record of a recognised type gives exactly one sample, decoded from that
\* record's own header and payload, in the order of the buffer, and a record
\* of an unrecognised type gives none.
C26_WalkAdvancesByAdvertisedSize ==
    ResultIsFresh =>
        /\ outcome.result = Ok
        /\ Len(samples.list) = Cardinality(RecognisedRecords)
        /\ \A k \in 1..Len(samples.list) :
              /\ samples.list[k].origin[2] \in RecognisedRecords
              /\ k = Cardinality({c \in RecognisedRecords : c <= samples.list[k].origin[2]})
              /\ samples.list[k].mode = Mode(RecordOfSample(k).misc)
              /\ samples.list[k].fields["TIME"] = U64Cells(RecordOfSample(k).fields["TIME"])

\* A record without decoder and a sample followed by bytes its decoder does
\* not consume both lie before a sample that result() has returned.
C26_Witness ==
    /\ ResultIsFresh
    /\ \E a, b, c \in 1..Len(PageOf(1).records) :
          /\ a < c /\ b < c
          /\ PageOf(1).records[a].type = PERF_RECORD_COMM
          /\ PageOf(1).records[b].type = PERF_RECORD_SAMPLE
          /\ PageOf(1).records[b].pad > 0
          /\ \E k \in 1..Len(samples.list) : samples.list[k].origin = <<1, c>>

\* The SAMPLE records of the buffer whose READ block reports a member count
\* different from the size of the opened group.
MismatchingRecords ==
    {c \in RecognisedRecords :
        /\ "READ" \in values.sample_type
        /\ (Len(PageOf(1).records[c].fields["READ"]) - 2) \div 2
               # Len(sample_counter[1].group.members)}

\* C27: a SAMPLE record whose READ block reports a member count different
\* from the size of the opened group still gives its sample, without counter
\* results, and every other field of the sample, those behind the READ
\* block included, holds the bytes the record carries for it.
C27_MismatchingReadBlockIsDropped ==
    ResultIsFresh =>
        \A c \in MismatchingRecords :
            \E k \in 1..Len(samples.list) :
                /\ samples.list[k].origin = <<1, c>>
                /\ samples.list[k].fields["READ"] = <<>>
                /\ samples.list[k].names = <<>>
                /\ \A f \in values.sample_type \ {"READ"} :
                      samples.list[k].fields[f] = CarriedCells(f, RecordOfSample(k).fields[f])

\* result() has returned the sample of a record that reports fewer members
\* and the sample of a record that reports more members than the group has,
\* both with a callchain behind the READ block.
C27_Witness ==
    /\ ResultIsFresh
    /\ \E a, b \in MismatchingRecords :
          /\ Len(PageOf(1).records[a].fields["READ"]) < Len(PageOf(1).records[b].fields["READ"])
          /\ PageOf(1).records[a].fields["CALLCHAIN"] # <<>>
          /\ \E k \in 1..Len(samples.list) :
                samples.list[k].origin = <<1, b>> /\ samples.list[k].fields["CALLCHAIN"] # <<>>

(***************************************************************************)
(* C31: the result of a Multi-* counter (SpecMulti).                       *)
(***************************************************************************)
\* The sum of the first n instances' Group::get for the slot (id, in_group_id).
RECURSIVE SumOfGets(_, _, _)
SumOfGets(n, id, in_group_id) ==
    IF n = 0 THEN DZero
    ELSE DAdd(SumOfGets(n - 1, id, in_group_id),
              GroupGet(event_counters[n].groups[id + 1], in_group_id))

\* For every counter event of the shared event list, from the k-th on, the
\* sum over all instances divided once by the normalization.
RECURSIVE SummedValuesFrom(_, _)
SummedValuesFrom(k, normalization) ==
    IF k > Len(event_counters[1].events) THEN <<>>
    ELSE (IF event_counters[1].events[k].is_counter
          THEN <<[name |-> event_counters[1].events[k].name,
                  value |-> DDiv(SumOfGets(Len(event_counters),
                                           event_counters[1].events[k].group_id,
                                           event_counters[1].events[k].in_group_id),
                                 DFinite(normalization, 1, 0))]>>
          ELSE <<>>)
         \o SummedValuesFrom(k + 1, normalization)

\* C31: the result of a Multi-* counter holds, for each hardware counter,
\* the sum over all instances of that instance's Group::get for the
\* counter's slot, divided once by the normalization; metrics are evaluated
\* on the summed values and the names follow the visibility and ordering
\* rule of a single EventCounter. Every instance has the slot, and the call
\* returns.
C31_MultiResultSumsInstances ==
    outcome.op = "multi_result" =>
        /\ outcome.result = Ok
        /\ \A i \in 1..Len(event_counters), k \in 1..Len(event_counters[1].events) :
              event_counters[1].events[k].is_counter =>
                  event_counters[1].events[k].group_id < Len(event_counters[i].groups)
        /\ got = RequestedValues(event_counters[1].events,
                                 SummedValuesFrom(1, outcome.normalization), 1)

(***************************************************************************)
(* C32: Sampler::result and Sampler::stop leave the buffers alone          *)
(* (SpecRecords).                                                          *)
(***************************************************************************)
\* C32: in a step that is not a write of the kernel, a result() call changes neither data_tail nor the buffers nor the
\* sampler, so a result() call with no kernel write since the last one (and
\* the same argument) returns the same sequence of samples; stop() leaves
\* the buffers mapped and the sampler opened, so this also holds when a
\* stop() lies between the two calls.
C32_ResultIsAPureRead ==
    [][kernel_clock' = kernel_clock =>
           /\ outcome'.op = "result" =>
                /\ ring' = ring
                /\ UNCHANGED <<kernel_fds, samplerVars>>
                /\ (samples.at = kernel_clock /\ samples'.sort_by_time = samples.sort_by_time)
                       => samples'.list = samples.list
           /\ outcome'.op = "stop" =>
                UNCHANGED <<kernel_fds, samplerVars, ring, samples>>]_vars

\* A result() call after a stop() has returned again the samples that the
\* result() call before the stop() returned.
C32_Witness ==
    /\ outcome.op = "result"
    /\ outcome.again_after_stop
    /\ samples.list # <<>>

(***************************************************************************)
(* C40: one Sample per record that has a decoder (SpecWalk).               *)
(***************************************************************************)
\* The records of the buffer that give a sample: SAMPLE, LOST, SWITCH,
\* SWITCH_CPU_WIDE and CGROUP records, and THROTTLE and UNTHROTTLE records
\* when include-throttle is set.
EmittingRecords ==
    {c \in 1..Len(PageOf(1).records) :
        \/ PageOf(1).records[c].type \in
               {PERF_RECORD_SAMPLE, PERF_RECORD_LOST, PERF_RECORD_SWITCH,
                PERF_RECORD_SWITCH_CPU_WIDE, PERF_RECORD_CGROUP}
        \/ /\ PageOf(1).records[c].type \in {PERF_RECORD_THROTTLE, PERF_RECORD_UNTHROTTLE}
           /\ values.is_include_throttle}

\* C40: result() returns exactly one Sample per record of type SAMPLE, LOST,
\* SWITCH, SWITCH_CPU_WIDE or CGROUP, one per THROTTLE or UNTHROTTLE record
\* if and only if include-throttle is set, and none for any other record:
\* the returned samples are as many as these records, each from a record of
\* its own.
C40_OneSamplePerDecodedRecord ==
    outcome.op = "result" =>
        /\ outcome.result = Ok
        /\ Len(samples.list) = Cardinality(EmittingRecords)
        /\ \A k \in 1..Len(samples.list) : samples.list[k].origin[2] \in EmittingRecords
        /\ \A k, l \in 1..Len(samples.list) :
              k # l => samples.list[k].origin # samples.list[l].origin

\* result() has walked a buffer of a THROTTLE record and a record without
\* decoder with include-throttle set, and has returned one sample.
C40_Witness ==
    /\ outcome.op = "result"
    /\ values.is_include_throttle
    /\ \E a, b \in 1..Len(PageOf(1).records) :
          /\ PageOf(1).records[a].type = PERF_RECORD_THROTTLE
          /\ PageOf(1).records[b].type = PERF_RECORD_COMM
    /\ Len(samples.list) = 1

(***************************************************************************)
(* C33, C34: the walk over a data area that has wrapped (SpecWrap).        *)
(***************************************************************************)
\* C33: Sampler::result terminates for every content of the ring buffer:
\* whatever size a record header advertises, the walk makes progress and
\* reaches data_head.
C33_ResultTerminates ==
    outcome.op = "result" => outcome.result.error # "NeverReturns"

\* C34: whatever data_head the kernel has written, every address
\* Sampler::result reads lies inside the mapping: no byte is read behind the
\* end of the data area.
C34_ReadsInsideMapping ==
    outcome.op = "result" =>
        /\ outcome.result.error # "Crash"
        /\ \A i \in 1..Len(sample_counter) : read_extent[i] <= DataAreaBytes(PageOf(i))

(***************************************************************************)
(* C35: descriptors over sequences of start and stop (Spec).               *)
(***************************************************************************)
\* C35: in every sequence of EventCounter::start and EventCounter::stop,
\* start twice without a stop in between included, every descriptor that
\* perf_event_open returned is closed by a later stop: when stop has
\* returned, no descriptor opened by the EventCounter is open.
C35_StopClosesEveryDescriptor ==
    outcome.op = "stop" => kernel_fds = {}

(***************************************************************************)
(* C36: the opened flag of the Sampler (SpecSampler).                      *)
(***************************************************************************)
\* Every sample counter has an opened leader and a mapped buffer.
EverySampleCounterIsOpened ==
    \A i \in 1..Len(sample_counter) :
        /\ GroupLeaderFd(sample_counter[i].group) > -1
        /\ sample_counter[i].buffer # 0

\* C36: the opened flag of the Sampler is true only if every sample counter
\* has an opened leader and a mapped buffer: after a failed Sampler::open the
\* sampler is not marked opened, and start() never enables or reports
\* success on a partially opened set of groups.
C36_OpenedOnlyWhenEveryGroupIsOpened ==
    /\ is_opened => EverySampleCounterIsOpened
    /\ outcome.op = "start" /\ outcome.result.error = "none" => EverySampleCounterIsOpened

(***************************************************************************)
(* C37, C38: the event list over sequences of add calls (SpecAdd).         *)
(***************************************************************************)
\* C37: a failed EventCounter::add, the failure of a metric after some of
\* its required counters were resolved included, leaves the event list and
\* the groups exactly as they were before the call.
C37_FailedAddChangesNothing ==
    [][outcome'.op = "add" /\ outcome'.result.error # "none"
           => events' = events /\ groups' = groups]_vars

\* C38: after any sequence of EventCounter::add calls every name occurs at
\* most once in the event list: adding the same counter or the same metric
\* again does not create a second entry.
C38_NamesOccurOnce ==
    \A a, b \in 1..Len(events) : events[a].name = events[b].name => a = b

(***************************************************************************)
(* C39: the counter names of a SampleCounter (SpecSampler).                *)
(***************************************************************************)
\* C39: every SampleCounter built while PERF_SAMPLE_READ is set has exactly
\* one counter name per group member, in member order: the names of its
\* triggers first, then those of the read-value counters; so a READ block of
\* as many members as the group has never indexes past the name list.
C39_OneNamePerGroupMember ==
    "READ" \in values.sample_type =>
        /\ Len(sample_counter) <= Len(triggers)
        /\ \A i \in 1..Len(sample_counter) :
              /\ Len(sample_counter[i].counter_names) = Len(sample_counter[i].group.members)
              /\ sample_counter[i].counter_names = triggers[i] \o values.counters
              /\ \A k \in 1..Len(sample_counter[i].group.members) :
                    sample_counter[i].group.members[k].is_auxiliary
                        = (sample_counter[i].counter_names[k] \in AuxiliaryCounterNames)

\* A sampler recording READ was opened with a group of two triggers, the
\* first of them auxiliary, and one read-value counter: three names.
C39_Witness ==
    /\ "READ" \in values.sample_type
    /\ outcome.op \in {"open", "start"}
    /\ outcome.result.error = "none"
    /\ \E i \in 1..Len(sample_counter) :
          /\ sample_counter[i].counter_names = <<"mem-loads-aux", "cycles", "instructions">>
          /\ Len(sample_counter[i].group.members) = 3

=============================================================================
